---- MODULE Spec2Model ----
(***************************************************************************)
(* A model of the 64tass language server: the document indexer            *)
(* (parser.ts), the symbol resolver (symbols.ts) and the cross-document   *)
(* index manager with its event handlers (server.ts).                     *)
(*                                                                         *)
(* Source lines are TLA+ strings, scanned character by character the way  *)
(* the regular expressions of the source scan them.  All files live in    *)
(* one directory, so an include path names its file.                      *)
(***************************************************************************)
EXTENDS Integers, Sequences, FiniteSets, TLC

\* JavaScript's null / undefined for a nullable string.  "<" occurs in no
\* identifier and no scope path, so it cannot collide with a real value.
Null == "<null>"

\* The one element of a one-element set.  Only({F(x) : x \in {e}}) is F(e)
\* with e computed once, however often F uses it.
Only(S) == CHOOSE x \in S : TRUE

(***************************************************************************)
(* Characters and the character classes of the regular expressions.       *)
(***************************************************************************)
Ch(s, i) == SubSeq(s, i, i)

LowerMap ==
    [A |-> "a", B |-> "b", C |-> "c", D |-> "d", E |-> "e", F |-> "f",
     G |-> "g", H |-> "h", I |-> "i", J |-> "j", K |-> "k", L |-> "l",
     M |-> "m", N |-> "n", O |-> "o", P |-> "p", Q |-> "q", R |-> "r",
     S |-> "s", T |-> "t", U |-> "u", V |-> "v", W |-> "w", X |-> "x",
     Y |-> "y", Z |-> "z"]

LowerLetters ==
    {"a", "b", "c", "d", "e", "f", "g", "h", "i", "j", "k", "l", "m",
     "n", "o", "p", "q", "r", "s", "t", "u", "v", "w", "x", "y", "z"}

Digits == {"0", "1", "2", "3", "4", "5", "6", "7", "8", "9"}

\* [a-zA-Z]
IsAlpha(c) == c \in LowerLetters \/ c \in DOMAIN LowerMap

\* [a-zA-Z0-9_], also the word characters of \b
IsWord(c) == IsAlpha(c) \/ c \in Digits \/ c = "_"

\* \s (the lines of a document hold no line break)
IsSpace(c) == c = " " \/ c = "\t"

ToLowerCh(c) == IF c \in DOMAIN LowerMap THEN LowerMap[c] ELSE c

RECURSIVE ToLowerCase(_)
\* String.prototype.toLowerCase
ToLowerCase(s) ==
    IF Len(s) = 0 THEN "" ELSE ToLowerCh(Ch(s, 1)) \o ToLowerCase(Tail(s))

RECURSIVE SpaceEnd(_, _)
\* \s* from position i: the position after the run
SpaceEnd(s, i) ==
    IF i <= Len(s) /\ IsSpace(Ch(s, i)) THEN SpaceEnd(s, i + 1) ELSE i

RECURSIVE WordEnd(_, _)
\* [a-zA-Z0-9_]* from position i: the position after the run
WordEnd(s, i) ==
    IF i <= Len(s) /\ IsWord(Ch(s, i)) THEN WordEnd(s, i + 1) ELSE i

RECURSIVE SignEnd(_, _)
\* [+\-]* from position i: the position after the run
SignEnd(s, i) ==
    IF i <= Len(s) /\ Ch(s, i) \in {"+", "-"} THEN SignEnd(s, i + 1) ELSE i

RECURSIVE NonQuoteEnd(_, _)
\* [^"']* from position i: the position after the run
NonQuoteEnd(s, i) ==
    IF i <= Len(s) /\ Ch(s, i) \notin {"'", "\""} THEN NonQuoteEnd(s, i + 1) ELSE i

\* the literal lit at position i
LitAt(s, i, lit) ==
    /\ i >= 1
    /\ i + Len(lit) - 1 <= Len(s)
    /\ SubSeq(s, i, i + Len(lit) - 1) = lit

\* the lower-case literal lit at position i, under the i flag
LitAtCI(s, i, lit) ==
    /\ i >= 1
    /\ i + Len(lit) - 1 <= Len(s)
    /\ ToLowerCase(SubSeq(s, i, i + Len(lit) - 1)) = lit

\* \b at position j, the character before j being a word character
BoundaryAt(s, j) == j > Len(s) \/ ~IsWord(Ch(s, j))

\* ^([a-zA-Z][a-zA-Z0-9_]*): the position after the identifier, 0 if none
IdentEnd(s) ==
    IF Len(s) >= 1 /\ IsAlpha(Ch(s, 1)) THEN WordEnd(s, 2) ELSE 0

(***************************************************************************)
(* constants.ts                                                            *)
(***************************************************************************)
OPCODES ==
    {"adc", "and", "asl", "bcc", "bcs", "beq", "bit", "bmi", "bne", "bpl",
     "brk", "bvc", "bvs", "clc", "cld", "cli", "clv", "cmp", "cpx", "cpy",
     "dec", "dex", "dey", "eor", "inc", "inx", "iny", "jmp", "jsr", "lda",
     "ldx", "ldy", "lsr", "nop", "ora", "pha", "php", "pla", "plp", "rol",
     "ror", "rti", "rts", "sbc", "sec", "sed", "sei", "sta", "stx", "sty",
     "tax", "tay", "tsx", "txa", "txs", "tya",
     "ane", "arr", "asr", "dcp", "isb", "jam", "lax", "lds", "rla", "rra",
     "sax", "sbx", "sha", "shs", "shx", "shy", "slo", "sre", "ahx", "alr",
     "axs", "dcm", "ins", "isc", "lae", "las", "lxa", "tas", "xaa"}

\* Object.entries(SCOPE_OPENERS), in insertion order
SCOPE_OPENERS ==
    << [open |-> ".proc",      close |-> ".pend"],
       [open |-> ".block",     close |-> ".bend"],
       [open |-> ".macro",     close |-> ".endm"],
       [open |-> ".function",  close |-> ".endf"],
       [open |-> ".struct",    close |-> ".ends"],
       [open |-> ".union",     close |-> ".endu"],
       [open |-> ".namespace", close |-> ".endn"] >>

\* Object.keys(SCOPE_OPENERS)
ScopeOpenerKeys == {SCOPE_OPENERS[i].open : i \in 1..Len(SCOPE_OPENERS)}

\* the directives of the data-label rule
DataDirectives == {"byte", "word", "addr", "fill", "text", "ptext", "null"}

(***************************************************************************)
(* The file system: every file is in the directory "/", and a file URI is *)
(* "file://" followed by the path.                                         *)
(***************************************************************************)
FileURLToPath(uri) == SubSeq(uri, 8, Len(uri))

PathToFileURL(p) == "file://" \o p

RECURSIVE LastIndexOf(_, _, _)
\* String.prototype.lastIndexOf for a one-character needle, searching
\* backwards from the 1-based position i; 0 when absent (JavaScript's -1)
LastIndexOf(s, c, i) ==
    IF i < 1 THEN 0
    ELSE IF Ch(s, i) = c THEN i
    ELSE LastIndexOf(s, c, i - 1)

\* path.dirname of an absolute path
Dirname(p) ==
    LET k == LastIndexOf(p, "/", Len(p))
    IN  IF k <= 1 THEN "/" ELSE SubSeq(p, 1, k - 1)

\* path.resolve(dir, rel) for a plain relative file name
PathResolve(dir, rel) ==
    IF dir = "/" THEN "/" \o rel ELSE dir \o "/" \o rel

(***************************************************************************)
(* parser.ts: the line patterns of parseDocument.  Each operator follows   *)
(* the one way its regular expression can match: the greedy runs are      *)
(* maximal, and backtracking never finds a second match.                   *)
(***************************************************************************)

\* /^\s*;/.test(line) || /^\s*$/.test(line)
IsBlankOrComment(line) ==
    LET i == SpaceEnd(line, 1)
    IN  i > Len(line) \/ Ch(line, i) = ";"

\* line.match(/^\s*\.include\s+["']([^"']+)["']/i): group 1, or Null
IncludeMatch(line) ==
    LET i == SpaceEnd(line, 1)
        j == i + 8
        k == SpaceEnd(line, j)
        q == NonQuoteEnd(line, k + 1)
    IN  IF /\ LitAtCI(line, i, ".include")
           /\ k > j
           /\ k <= Len(line)
           /\ Ch(line, k) \in {"'", "\""}
           /\ q > k + 1
           /\ q <= Len(line)
        THEN SubSeq(line, k + 1, q - 1)
        ELSE Null

\* new RegExp(`(?:^|\\s)\\${close}\\b`, 'i').test(lineLower)
ClosePatternTest(lineLower, close) ==
    \E p \in 1..Len(lineLower) :
        /\ LitAt(lineLower, p, close)
        /\ (p = 1 \/ IsSpace(Ch(lineLower, p - 1)))
        /\ BoundaryAt(lineLower, p + Len(close))

\* line.match(new RegExp(`^([a-zA-Z][a-zA-Z0-9_]*)\\s+\\${open}\\b\\s*(.*)`, 'i')):
\* group 1, or Null
OpenPatternMatch(line, open) ==
    LET e == IdentEnd(line)
        k == SpaceEnd(line, e)
    IN  IF /\ e > 0
           /\ k > e
           /\ LitAtCI(line, k, open)
           /\ BoundaryAt(line, k + Len(open))
        THEN SubSeq(line, 1, e - 1)
        ELSE Null

\* new RegExp(`^\\s*\\${open}\\b`, 'i').test(lineLower)
AnonPatternTest(lineLower, open) ==
    LET i == SpaceEnd(lineLower, 1)
    IN  LitAt(lineLower, i, open) /\ BoundaryAt(lineLower, i + Len(open))

\* line.match(/^([a-zA-Z][a-zA-Z0-9_]*)\s*(:)?\s*(;.*)?$/): group 1, or Null
CodeLabelMatch(line) ==
    LET e  == IdentEnd(line)
        k  == SpaceEnd(line, e)
        k2 == IF k <= Len(line) /\ Ch(line, k) = ":" THEN k + 1 ELSE k
        k3 == SpaceEnd(line, k2)
    IN  IF e > 0 /\ (k3 > Len(line) \/ Ch(line, k3) = ";")
        THEN SubSeq(line, 1, e - 1)
        ELSE Null

\* line.match(/^([a-zA-Z][a-zA-Z0-9_]*)\s+([a-zA-Z]{3})\b/) with
\* OPCODES.has(match[2].toLowerCase()): group 1, or Null
CodeLabelOpcodeMatch(line) ==
    LET e == IdentEnd(line)
        k == SpaceEnd(line, e)
    IN  IF /\ e > 0
           /\ k > e
           /\ k + 2 <= Len(line)
           /\ \A d \in 0..2 : IsAlpha(Ch(line, k + d))
           /\ BoundaryAt(line, k + 3)
           /\ ToLowerCase(SubSeq(line, k, k + 2)) \in OPCODES
        THEN SubSeq(line, 1, e - 1)
        ELSE Null

\* line.match(/^(\s*)(_[a-zA-Z0-9_]*)\s*(?::|=|:=|\s|;|$)/):
\* [start |-> length of group 1, name |-> group 2], name Null when no match
LocalMatch(line) ==
    LET i == SpaceEnd(line, 1)
        e == WordEnd(line, i + 1)
    IN  IF /\ i <= Len(line)
           /\ Ch(line, i) = "_"
           /\ \/ e > Len(line)
              \/ IsSpace(Ch(line, e))
              \/ Ch(line, e) \in {":", "=", ";"}
        THEN [start |-> i - 1, name |-> SubSeq(line, i, e - 1)]
        ELSE [start |-> 0, name |-> Null]

\* the terminator (?:\s|;|$) at position j
AnonTerminatorAt(line, j) ==
    j > Len(line) \/ IsSpace(Ch(line, j)) \/ Ch(line, j) = ";"

\* line.match(/^(\s*)([+\-]+)\s*(:)?(?:\s|;|$)/):
\* [start |-> length of group 1, symbols |-> group 2], symbols Null when no match
AnonMatch(line) ==
    LET i == SpaceEnd(line, 1)
        r == SignEnd(line, i)
    IN  IF /\ r > i
           /\ \/ AnonTerminatorAt(line, r)
              \/ (Ch(line, r) = ":" /\ AnonTerminatorAt(line, r + 1))
        THEN [start |-> i - 1, symbols |-> SubSeq(line, i, r - 1)]
        ELSE [start |-> 0, symbols |-> Null]

\* line.match(/^([a-zA-Z][a-zA-Z0-9_]*)\s+\.(byte|word|addr|fill|text|ptext|null)\b/i):
\* group 1, or Null
DataLabelMatch(line) ==
    LET e == IdentEnd(line)
        k == SpaceEnd(line, e)
    IN  IF /\ e > 0
           /\ k > e
           /\ k <= Len(line)
           /\ Ch(line, k) = "."
           /\ \E d \in DataDirectives :
                 LitAtCI(line, k + 1, d) /\ BoundaryAt(line, k + 1 + Len(d))
        THEN SubSeq(line, 1, e - 1)
        ELSE Null

\* line.match(/^([a-zA-Z][a-zA-Z0-9_]*)\s+\.([a-zA-Z_][a-zA-Z0-9_]*)\b/i):
\* [name |-> group 1, macro |-> group 2], name Null when no match
MacroLabelMatch(line) ==
    LET e == IdentEnd(line)
        k == SpaceEnd(line, e)
        m == WordEnd(line, k + 2)
    IN  IF /\ e > 0
           /\ k > e
           /\ k + 1 <= Len(line)
           /\ Ch(line, k) = "."
           /\ (IsAlpha(Ch(line, k + 1)) \/ Ch(line, k + 1) = "_")
        THEN [name |-> SubSeq(line, 1, e - 1), macro |-> SubSeq(line, k + 1, m - 1)]
        ELSE [name |-> Null, macro |-> Null]

RECURSIVE NonSemiEnd(_, _)
\* [^;]* from position i: the position after the run
NonSemiEnd(s, i) ==
    IF i <= Len(s) /\ Ch(s, i) # ";" THEN NonSemiEnd(s, i + 1) ELSE i

RECURSIVE TrimEnd(_)
\* String.prototype.trimEnd
TrimEnd(s) ==
    IF Len(s) > 0 /\ IsSpace(Ch(s, Len(s))) THEN TrimEnd(SubSeq(s, 1, Len(s) - 1)) ELSE s

\* String.prototype.trim
Trim(s) == LET t == TrimEnd(s) IN SubSeq(t, SpaceEnd(t, 1), Len(t))

\* line.match(/^(\s*)([a-zA-Z_][a-zA-Z0-9_]*)\s*:?=\s*([^;]+)/):
\* [start |-> length of group 1, name |-> group 2, value |-> group 3],
\* name Null when no match.  When only white space follows the "=", \s* gives
\* one space back to [^;]+.
ConstMatch(line) ==
    LET i  == SpaceEnd(line, 1)
        e  == WordEnd(line, i + 1)
        k  == SpaceEnd(line, e)
        k2 == IF k <= Len(line) /\ Ch(line, k) = ":" THEN k + 1 ELSE k
        v  == SpaceEnd(line, k2 + 1)
        v0 == IF v <= Len(line) /\ Ch(line, v) # ";" THEN v ELSE v - 1
        NoMatch == [start |-> 0, name |-> Null, value |-> Null]
    IN  IF /\ i <= Len(line)
           /\ (IsAlpha(Ch(line, i)) \/ Ch(line, i) = "_")
           /\ k2 <= Len(line)
           /\ Ch(line, k2) = "="
           /\ v0 > k2
        THEN [start |-> i - 1,
              name  |-> SubSeq(line, i, e - 1),
              value |-> SubSeq(line, v0, NonSemiEnd(line, v0) - 1)]
        ELSE NoMatch

(***************************************************************************)
(* The files on disk.  A text is the sequence of its lines                 *)
(* (text.split('\n')).  The disk does not change while the server runs.    *)
(***************************************************************************)
DiskText ==
    ("/a.asm" :> << ".include 'b.asm'", "Amain" >>) @@
    ("/b.asm" :> << ".include 'c.asm'", "Bval = 1" >>) @@
    ("/c.asm" :> << ".include 'b.asm'", "Cval = 2" >>) @@
    ("/u.asm" :> << "Uval = 3" >>)

\* files that exist but cannot be read: fs.readFileSync throws
Unreadable == {"/u.asm"}

\* fs.existsSync
ExistsSync(path) == path \in DOMAIN DiskText

(***************************************************************************)
(* parser.ts: parseDocument                                                *)
(***************************************************************************)

\* normalizeName
NormalizeName(name, caseSensitive) ==
    IF caseSensitive THEN name ELSE ToLowerCase(name)

RECURSIVE JoinDots(_)
\* names.join('.') for the names of a non-empty sequence of frames
JoinDots(frames) ==
    IF Len(frames) = 1 THEN frames[1].name
    ELSE frames[1].name \o "." \o JoinDots(Tail(frames))

\* getCurrentScopePath
GetCurrentScopePath(stack) ==
    LET named == SelectSeq(stack, LAMBDA f : f.name # Null)
    IN  IF Len(named) > 0 THEN JoinDots(named) ELSE Null

\* a LabelDefinition; an absent isAnonymous is FALSE, an absent
\* anonymousCount 0, an absent value Null
Label(name, originalName, uri, line, startChar, endChar, scopePath, localScope, isLocal, isAnonymous, anonymousCount, value) ==
    [name |-> name, originalName |-> originalName, uri |-> uri,
     line |-> line, startChar |-> startChar, endChar |-> endChar,
     scopePath |-> scopePath, localScope |-> localScope, isLocal |-> isLocal,
     isAnonymous |-> isAnonymous, anonymousCount |-> anonymousCount,
     value |-> value]

\* a plain label at column 0: the entries pushed by the scope-opener,
\* code-label, data-label and macro-label rules
PlainLabel(labelName, uri, lineNum, scopePath, caseSensitive) ==
    Label(NormalizeName(labelName, caseSensitive), labelName, uri, lineNum,
          0, Len(labelName), scopePath, Null, FALSE, FALSE, 0, Null)

\* the state of the scan: the results so far, the scope stack and the
\* current code label
ParseInit ==
    [labels |-> << >>, scopeAtLine |-> << >>, includes |-> << >>,
     scopeStack |-> << >>, currentLocalScope |-> Null]

\* scopeAtLine.set(lineNum, {scopePath: getCurrentScopePath(), localScope: currentLocalScope})
SetScopeAtLine(P, lineNum) ==
    LET entry == [scopePath |-> GetCurrentScopePath(P.scopeStack),
                  localScope |-> P.currentLocalScope]
    IN  IF lineNum + 1 > Len(P.scopeAtLine)
        THEN [P EXCEPT !.scopeAtLine = Append(@, entry)]
        ELSE [P EXCEPT !.scopeAtLine[lineNum + 1] = entry]

\* the .include rule: the target is linked only when it exists on disk
IncludeStep(P, uri, line) ==
    LET includePath  == IncludeMatch(line)
        resolvedPath == PathResolve(Dirname(FileURLToPath(uri)), includePath)
    IN  IF includePath # Null /\ ExistsSync(resolvedPath)
        THEN [P EXCEPT !.includes = Append(@, PathToFileURL(resolvedPath))]
        ELSE P

RECURSIVE InnermostFrame(_, _, _)
\* the innermost frame of the directive, from index i downwards; 0 if none
InnermostFrame(stack, directive, i) ==
    IF i < 1 THEN 0
    ELSE IF stack[i].directive = directive THEN i
    ELSE InnermostFrame(stack, directive, i - 1)

\* scopeStack.splice(i, 1), i 1-based
Splice(stack, i) == SubSeq(stack, 1, i - 1) \o SubSeq(stack, i + 1, Len(stack))

RECURSIVE CloseLoop(_, _, _)
\* the loop over SCOPE_OPENERS that pops closed scopes, from entry i:
\* C = [scopeStack, closedScope]
CloseLoop(C, lineLower, i) ==
    IF i > Len(SCOPE_OPENERS) THEN C
    ELSE LET k == InnermostFrame(C.scopeStack, SCOPE_OPENERS[i].open, Len(C.scopeStack))
         IN  IF ClosePatternTest(lineLower, SCOPE_OPENERS[i].close) /\ k > 0
             THEN CloseLoop([scopeStack |-> Splice(C.scopeStack, k), closedScope |-> TRUE],
                            lineLower, i + 1)
             ELSE CloseLoop(C, lineLower, i + 1)

\* the named scope-opener rule that leaves the entry of the line as it was
\* before the frame was pushed
NamedOpenStepStaleEntry(P, uri, lineNum, labelName, open, caseSensitive) ==
    [P EXCEPT
       !.labels = Append(@, PlainLabel(labelName, uri, lineNum,
                             GetCurrentScopePath(P.scopeStack), caseSensitive)),
       !.scopeStack = Append(@, [name |-> NormalizeName(labelName, caseSensitive),
                                 directive |-> open])]

\* the named scope-opener rule for one opener: the label at the enclosing
\* scope, then the pushed frame
NamedOpenStep(P, uri, lineNum, labelName, open, caseSensitive) ==
    LET P1 == [P EXCEPT
                 !.labels = Append(@, PlainLabel(labelName, uri, lineNum,
                                       GetCurrentScopePath(P.scopeStack), caseSensitive)),
                 !.scopeStack = Append(@, [name |-> NormalizeName(labelName, caseSensitive),
                                           directive |-> open])]
    IN  SetScopeAtLine(P1, lineNum)

\* the anonymous scope-opener rule for one opener
AnonOpenStep(P, lineNum, open) ==
    SetScopeAtLine([P EXCEPT !.scopeStack = Append(@, [name |-> Null, directive |-> open])],
                   lineNum)

RECURSIVE OpenLoop(_, _, _, _, _, _, _)
\* the loop over SCOPE_OPENERS that opens scopes, from entry i.  Its
\* `continue` goes on to the next opener, not to the next line.
OpenLoop(P, uri, line, lineLower, lineNum, caseSensitive, i) ==
    IF i > Len(SCOPE_OPENERS) THEN P
    ELSE LET open      == SCOPE_OPENERS[i].open
             labelName == OpenPatternMatch(line, open)
         IN  IF labelName # Null
             THEN OpenLoop(NamedOpenStep(P, uri, lineNum, labelName, open, caseSensitive),
                           uri, line, lineLower, lineNum, caseSensitive, i + 1)
             ELSE IF AnonPatternTest(lineLower, open)
             THEN OpenLoop(AnonOpenStep(P, lineNum, open),
                           uri, line, lineLower, lineNum, caseSensitive, i + 1)
             ELSE OpenLoop(P, uri, line, lineLower, lineNum, caseSensitive, i + 1)

\* the two code-label rules: the label resets the current local scope
CodeLabelStep(P, uri, lineNum, labelName, caseSensitive) ==
    LET P1 == SetScopeAtLine(
                  [P EXCEPT !.currentLocalScope = NormalizeName(labelName, caseSensitive)],
                  lineNum)
    IN  [P1 EXCEPT !.labels = Append(@, PlainLabel(labelName, uri, lineNum,
                                          GetCurrentScopePath(P.scopeStack), caseSensitive))]

\* the local-symbol rule
LocalStep(P, uri, lineNum, m, caseSensitive) ==
    [P EXCEPT !.labels = Append(@,
        Label(NormalizeName(m.name, caseSensitive), m.name, uri, lineNum,
              m.start, m.start + Len(m.name),
              GetCurrentScopePath(P.scopeStack), P.currentLocalScope,
              TRUE, FALSE, 0, Null))]

\* symbols.split('').every(c => c === direction)
AllSameSymbol(symbols) ==
    \A i \in 1..Len(symbols) : Ch(symbols, i) = Ch(symbols, 1)

\* the anonymous-label rule with one entry for the whole run
AnonStepOnePerLine(P, uri, lineNum, m) ==
    [P EXCEPT !.labels = Append(@,
        Label(Ch(m.symbols, 1), m.symbols, uri, lineNum,
              m.start, m.start + Len(m.symbols),
              GetCurrentScopePath(P.scopeStack), P.currentLocalScope,
              TRUE, TRUE, 1, Null))]

\* the anonymous-label rule: one entry for each symbol of the run
AnonStep(P, uri, lineNum, m) ==
    [P EXCEPT !.labels = @ \o
        [i \in 1..Len(m.symbols) |->
            Label(Ch(m.symbols, 1), SubSeq(m.symbols, 1, i), uri, lineNum,
                  m.start + i - 1, m.start + i,
                  GetCurrentScopePath(P.scopeStack), P.currentLocalScope,
                  TRUE, TRUE, i, Null)]]

\* the data-label rule and the macro-invocation-label rule
PlainLabelStep(P, uri, lineNum, labelName, caseSensitive) ==
    [P EXCEPT !.labels = Append(@, PlainLabel(labelName, uri, lineNum,
                                     GetCurrentScopePath(P.scopeStack), caseSensitive))]

\* the constant-assignment rule
ConstStep(P, uri, lineNum, m, caseSensitive) ==
    LET isLocal == Ch(m.name, 1) = "_"
        value   == Trim(m.value)
    IN  [P EXCEPT !.labels = Append(@,
            Label(NormalizeName(m.name, caseSensitive), m.name, uri, lineNum,
                  m.start, m.start + Len(m.name),
                  GetCurrentScopePath(P.scopeStack),
                  IF isLocal THEN P.currentLocalScope ELSE Null,
                  isLocal, FALSE, 0,
                  IF value = "" THEN Null ELSE value))]

\* the label rules that follow the scope-opener loop, first match first
LabelRules(P, uri, line, lineNum, caseSensitive) ==
    LET codeLabel   == CodeLabelMatch(line)
        codeOpcode  == CodeLabelOpcodeMatch(line)
        localMatch  == LocalMatch(line)
        anonMatch   == AnonMatch(line)
        dataLabel   == DataLabelMatch(line)
        macroLabel  == MacroLabelMatch(line)
        constMatch  == ConstMatch(line)
    IN  IF codeLabel # Null
        THEN CodeLabelStep(P, uri, lineNum, codeLabel, caseSensitive)
        ELSE IF codeOpcode # Null
        THEN CodeLabelStep(P, uri, lineNum, codeOpcode, caseSensitive)
        ELSE IF localMatch.name # Null
        THEN LocalStep(P, uri, lineNum, localMatch, caseSensitive)
        ELSE IF anonMatch.symbols # Null /\ AllSameSymbol(anonMatch.symbols)
        THEN AnonStep(P, uri, lineNum, anonMatch)
        ELSE IF dataLabel # Null
        THEN PlainLabelStep(P, uri, lineNum, dataLabel, caseSensitive)
        ELSE IF macroLabel.name # Null
        THEN IF ("." \o NormalizeName(macroLabel.macro, caseSensitive)) \notin ScopeOpenerKeys
             THEN PlainLabelStep(P, uri, lineNum, macroLabel.name, caseSensitive)
             ELSE P
        ELSE IF constMatch.name # Null
        THEN ConstStep(P, uri, lineNum, constMatch, caseSensitive)
        ELSE P

\* the body of the line loop for one line
ProcessLine(P, uri, line, lineNum, caseSensitive) ==
    LET lineLower == ToLowerCase(line)
        P1 == SetScopeAtLine(P, lineNum)
    IN  IF IsBlankOrComment(line) THEN P1
        ELSE Only({
            LET C == CloseLoop([scopeStack |-> P2.scopeStack, closedScope |-> FALSE],
                               lineLower, 1)
            IN  IF C.closedScope
                THEN SetScopeAtLine([P2 EXCEPT !.scopeStack = C.scopeStack], lineNum)
                ELSE Only({LabelRules(P3, uri, line, lineNum, caseSensitive) :
                             P3 \in {OpenLoop(P2, uri, line, lineLower, lineNum,
                                              caseSensitive, 1)}})
            : P2 \in {IncludeStep(P1, uri, line)}})

RECURSIVE ParseLines(_, _, _, _, _)
\* for (let lineNum = 0; lineNum < lines.length; lineNum++)
ParseLines(P, uri, lines, lineNum, caseSensitive) ==
    IF lineNum >= Len(lines) THEN P
    ELSE Only({ParseLines(Q, uri, lines, lineNum + 1, caseSensitive) :
                 Q \in {ProcessLine(P, uri, lines[lineNum + 1], lineNum, caseSensitive)}})

\* parseDocument: the DocumentIndex of a document.  The tables that serve
\* only the macro checks of the diagnostics are left out.
ParseDocument(uri, lines, caseSensitive) ==
    LET P == ParseLines(ParseInit, uri, lines, 0, caseSensitive)
    IN  [labels |-> P.labels, scopeAtLine |-> P.scopeAtLine, includes |-> P.includes]

(***************************************************************************)
(* JavaScript Map, as the sequence of its entries in insertion order.      *)
(***************************************************************************)
MapKeys(m) == {m[i].key : i \in 1..Len(m)}

MapHas(m, k) == \E i \in 1..Len(m) : m[i].key = k

\* Map.prototype.get, for a key the map holds
MapGet(m, k) == m[CHOOSE i \in 1..Len(m) : m[i].key = k].value

\* Map.prototype.set: a key the map holds keeps its place
MapSet(m, k, v) ==
    IF MapHas(m, k)
    THEN [i \in 1..Len(m) |-> IF m[i].key = k THEN [key |-> k, value |-> v] ELSE m[i]]
    ELSE Append(m, [key |-> k, value |-> v])

\* Map.prototype.delete
MapDelete(m, k) == SelectSeq(m, LAMBDA e : e.key # k)


(***************************************************************************)
(* symbols.ts: the resolver                                                *)
(***************************************************************************)
\* the null findSymbolInfo returns when it finds no definition
NotFound ==
    Label(Null, Null, Null, 0 - 1, 0, 0, Null, Null, FALSE, FALSE, 0, Null)

\* String.prototype.startsWith for a one-character prefix
StartsWith(s, c) == Len(s) >= 1 /\ Ch(s, 1) = c

\* String.prototype.includes(c, from - 1)
IncludesFrom(s, c, from) == \E k \in from..Len(s) : Ch(s, k) = c

\* String.prototype.endsWith
EndsWith(s, suffix) ==
    Len(suffix) <= Len(s) /\ SubSeq(s, Len(s) - Len(suffix) + 1, Len(s)) = suffix

RECURSIVE AllLabels(_)
\* the labels met by "for (const [, index] of documentIndex) for (const label
\* of index.labels)", in the order the loops meet them
AllLabels(index) ==
    IF index = << >> THEN << >>
    ELSE Head(index).value.labels \o AllLabels(Tail(index))

\* the label a search loop returns: the first one that passes its test;
\* passes[i] tells whether labels[i] passes
FirstLabel(labels, passes) ==
    IF \E i \in 1..Len(labels) : passes[i]
    THEN labels[CHOOSE i \in 1..Len(labels) :
                    passes[i] /\ \A j \in 1..(i - 1) : ~passes[j]]
    ELSE NotFound

\* fromIndex.scopeAtLine.get(fromLine), with "?? null" on both fields
ScopeAtLineGet(index, fromLine) ==
    IF fromLine + 1 \in 1..Len(index.scopeAtLine)
    THEN index.scopeAtLine[fromLine + 1]
    ELSE [scopePath |-> Null, localScope |-> Null]

\* the test of the dotted-reference loop
DottedMatches(label, targetName, targetPath) ==
    /\ label.name = targetName
    /\ \/ label.scopePath = targetPath
       \/ label.scopePath # Null /\ EndsWith(label.scopePath, "." \o targetPath)

\* the local-symbol test without its comparison of the local scope
LocalMatchesAnyLocalScope(label, lookupName, currentScopePath, currentLocalScope) ==
    /\ label.name = lookupName
    /\ label.isLocal
    /\ label.scopePath = currentScopePath

\* the test of the local-symbol loop
LocalMatches(label, lookupName, currentScopePath, currentLocalScope) ==
    /\ label.name = lookupName
    /\ label.isLocal
    /\ label.scopePath = currentScopePath
    /\ label.localScope = currentLocalScope

\* the test of the three regular-symbol loops
RegularMatches(label, lookupName, scopeToTry) ==
    /\ label.name = lookupName
    /\ ~label.isLocal
    /\ label.scopePath = scopeToTry

\* the scope the parent loop tries after scopeToTry
ParentScope(scopeToTry) ==
    LET lastDot == LastIndexOf(scopeToTry, ".", Len(scopeToTry))
    IN  IF lastDot >= 1 THEN SubSeq(scopeToTry, 1, lastDot - 1) ELSE Null

RECURSIVE ParentLookup(_, _, _)
\* "while (scopeToTry !== null)": the parent scopes up to global
ParentLookup(labels, lookupName, scopeToTry) ==
    IF scopeToTry = Null THEN NotFound
    ELSE LET next  == ParentScope(scopeToTry)
             found == FirstLabel(labels, [i \in 1..Len(labels) |->
                                             RegularMatches(labels[i], lookupName, next)])
         IN  IF found # NotFound THEN found
             ELSE ParentLookup(labels, lookupName, next)

\* the regular lookup: the exact scope, the parents, then the global scope
RegularLookup(labels, lookupName, currentScopePath) ==
    LET exact  == FirstLabel(labels, [i \in 1..Len(labels) |->
                          RegularMatches(labels[i], lookupName, currentScopePath)])
        parent == ParentLookup(labels, lookupName, currentScopePath)
    IN  IF exact # NotFound THEN exact
        ELSE IF parent # NotFound THEN parent
        ELSE FirstLabel(labels, [i \in 1..Len(labels) |->
                 RegularMatches(labels[i], lookupName, Null)])

\* the lookup name left as the request spells it
LookupNameAsTyped(lookupWord) == lookupWord

\* const lookupName = lookupWord.toLowerCase(): the mode is no parameter of
\* findSymbolInfo
LookupName(lookupWord) == ToLowerCase(lookupWord)

\* findSymbolInfo(word, fromUri, fromLine, documentIndex)
FindSymbolInfo(word, fromUri, fromLine, index) ==
    IF ~MapHas(index, fromUri) THEN NotFound
    ELSE
    LET fromIndex  == MapGet(index, fromUri)
        lineScope  == ScopeAtLineGet(fromIndex, fromLine)
        lookupWord == IF StartsWith(word, ".") /\ ~IncludesFrom(word, ".", 2)
                      THEN SubSeq(word, 2, Len(word)) ELSE word
        lookupName == LookupName(lookupWord)
        lastDot    == LastIndexOf(lookupName, ".", Len(lookupName))
        all        == AllLabels(index)
        own        == fromIndex.labels
    IN  IF IncludesFrom(lookupWord, ".", 1)
        THEN FirstLabel(all, [i \in 1..Len(all) |->
                 DottedMatches(all[i], SubSeq(lookupName, lastDot + 1, Len(lookupName)),
                               SubSeq(lookupName, 1, lastDot - 1))])
        ELSE IF StartsWith(lookupWord, "_")
        THEN FirstLabel(own, [i \in 1..Len(own) |->
                 LocalMatches(own[i], lookupName, lineScope.scopePath,
                              lineScope.localScope)])
        ELSE RegularLookup(all, lookupName, lineScope.scopePath)

\* the anonymous labels of the direction that share the scope path and the
\* local scope of the line, in the order of the document
AnonymousCandidates(fromIndex, direction, fromLine) ==
    LET lineScope == ScopeAtLineGet(fromIndex, fromLine)
    IN  SelectSeq(fromIndex.labels, LAMBDA label :
            /\ label.isAnonymous
            /\ label.name = direction
            /\ label.scopePath = lineScope.scopePath
            /\ label.localScope = lineScope.localScope)

\* findAnonymousLabel(direction, distance, fromUri, fromLine, documentIndex):
\* the distance-th anonymous label met from the line on, forward for "+",
\* backward for "-"; the labels of the line itself are not met
FindAnonymousLabel(direction, distance, fromUri, fromLine, index) ==
    IF ~MapHas(index, fromUri) THEN NotFound
    ELSE
    LET candidates == AnonymousCandidates(MapGet(index, fromUri), direction, fromLine)
        forward    == SelectSeq(candidates, LAMBDA label : label.line > fromLine)
        backward   == SelectSeq(candidates, LAMBDA label : label.line < fromLine)
    IN  IF direction = "+"
        THEN IF distance <= Len(forward) THEN forward[distance] ELSE NotFound
        ELSE IF distance <= Len(backward)
             THEN backward[Len(backward) - distance + 1] ELSE NotFound

(***************************************************************************)
(* server.ts: the index manager                                            *)
(***************************************************************************)
VARIABLES
    phase,                      \* "start", "initialized" or "running"
    hasConfigurationCapability,
    globalSettings,             \* [caseSensitive |-> BOOLEAN]
    pending,                    \* getConfiguration requests awaiting their answer
    documents,                  \* the TextDocuments manager: uri -> lines
    documentIndex,              \* Map<string, DocumentIndex>
    includeRefCount,            \* included uri -> set of root uris
    lastPass,                   \* the uris parsed by the handler that ran last
    published,                  \* the sendDiagnostics notification of that handler
    reply,                      \* the symbol that handler resolved for a request
    disk,                       \* the files fs.readFileSync reads: path -> lines
    callStack,                  \* the indexDocument calls in progress
    indexedUris,                \* the visited set of the pass in progress
    scan                        \* the parseDocument / validateDocument call in progress

vars == << phase, hasConfigurationCapability, globalSettings, pending,
           documents, documentIndex, includeRefCount, lastPass, published,
           reply, disk, callStack, indexedUris, scan >>

\* the documents the editor may open
Uris == {"file:///a.asm", "file:///b.asm"}

\* the texts an editor buffer may hold besides the saved text of its file
EditedTexts ==
    { << "Xlab" >>,
      << ".include 'b.asm'", "Xlab" >>,
      << ".include 'u.asm'", ".include 'nofile.asm'", ".include 'a.asm'",
         ".include 'c.asm'", ".include 'c.asm'", "Xlab" >> }

EditorTexts(uri) == EditedTexts \cup {DiskText[FileURLToPath(uri)]}

\* texts with nested scopes, code labels and local symbols, for the requests
ResolverTexts ==
    { << "Val = 1", "s .proc", "Val = 2", "t .block", "Inner = 3", "_x = 4",
         ".bend", ".pend" >>,
      << "Top", "_x", "Two", "_x", "q .proc", "Inner = 5", "_x = 6", ".pend" >>,
      << "Inner = 7", "val = 8", "_x = 9" >>,
      << "Lab = 1", "lab = 2", "main", "-", "+", "-", "++", "sub", "+" >> }

\* the texts of the requests a document may hold: the second document takes
\* the texts without code labels
ResolverTextsOf(uri) ==
    IF uri = "file:///a.asm" THEN ResolverTexts
    ELSE {t \in ResolverTexts : \A i \in 1..Len(t) : CodeLabelMatch(t[i]) = Null}

\* the words a request may carry
Words == {"Val", "val", "inner", "_x", "_X", "nope", "Lab", "lab", "LAB",
          "s.Val", "t.inner", "s.t.Inner", "t._x", "._x"}

\* texts with references in code and in comments, macro calls, other letter
\* cases, local symbols and an included file, for find-all-references and
\* rename
RefTexts ==
    { << "Lab = 1", " lda Lab ; Lab", " lda lab", "Two lda #Lab+Lab ;lab Lab" >>,
      << "mac .macro", " .endm", "s .proc", "Lab = 2", " .mac ; mac", " lda Lab", " .pend",
         " .mac", " lda Lab ; .mac" >>,
      << "_x = 1", " lda _x ; _x", "main", "_x = 2", " lda _x" >>,
      << ".include 'b.asm'", " lda Bval ; Bval" >> }

\* the texts of the second document of the reference requests
RefTextsOf(uri) ==
    IF uri = "file:///a.asm" THEN RefTexts
    ELSE { << " lda _x", " lda Lab ; Lab" >>, << "s .proc", " lda _x", " .pend", " .mac" >> }

\* the words a reference request may carry
RefWords == {"Lab", "lab", "_x", "mac", ".mac", "Bval", "lda"}

\* the anonymous references an operand may hold
AnonymousRefs == {"+", "++", "-", "--"}

\* the most .include lines of a file of the include graphs
MaxIncludes == 2

\* the files of the include graphs
GraphFiles == {"a.asm", "b.asm", "c.asm"}

IncludeLines == {".include '" \o f \o "'" : f \in GraphFiles}

\* the texts of the include graphs: up to MaxIncludes .include lines, then
\* the empty line that follows the last newline
IncludeTexts ==
    {t \o << "" >> : t \in UNION {[1..n -> IncludeLines] : n \in 0..MaxIncludes}}

\* every (uri, text) the server can be asked to parse
ParseInputs ==
    {<<uri, lines>> : uri \in Uris, lines \in EditedTexts \cup ResolverTexts} \cup
    UNION {{<<uri, lines>> : lines \in RefTextsOf(uri)} : uri \in Uris} \cup
    {<<PathToFileURL(path), DiskText[path]>> : path \in DOMAIN DiskText \ Unreadable} \cup
    {<<PathToFileURL("/" \o f), lines>> : f \in GraphFiles, lines \in IncludeTexts}

\* parseDocument on each of these inputs.  Merging with the empty function
\* makes TLC tabulate the results once, not parse again at every use.
ParseTable ==
    [in \in ParseInputs \X BOOLEAN |-> ParseDocument(in[1][1], in[1][2], in[2])] @@ << >>

\* the parseDocument call of indexDocument
ParsedIndex(uri, lines, caseSensitive) == ParseTable[<< <<uri, lines>>, caseSensitive >>]

\* the most getConfiguration requests in flight at once
MaxPending == 2

\* the most indexDocument calls in progress at once
MaxDepth == 4

\* clearIncludeRefs that drops the references of the root and leaves the
\* indexes of the orphaned files in the map
ClearIncludeRefsKeepIndex(M, rootUri) ==
    LET orphanedUris == {u \in DOMAIN M.includeRefCount :
                             M.includeRefCount[u] \ {rootUri} = {}}
        kept == DOMAIN M.includeRefCount \ orphanedUris
    IN  [M EXCEPT
           !.includeRefCount = [u \in kept |-> M.includeRefCount[u] \ {rootUri}]]

\* clearIncludeRefs: the two maps afterwards
ClearIncludeRefs(M, rootUri) ==
    LET orphanedUris == {u \in DOMAIN M.includeRefCount :
                             M.includeRefCount[u] \ {rootUri} = {}}
        kept == DOMAIN M.includeRefCount \ orphanedUris
    IN  [M EXCEPT
           !.includeRefCount = [u \in kept |-> M.includeRefCount[u] \ {rootUri}],
           !.documentIndex = SelectSeq(@, LAMBDA e : e.key \notin orphanedUris)]

\* includeRefCount.get(includeUri)!.add(effectiveRootUri), the set made first
\* when the map has none
AddIncludeRef(refs, includeUri, rootUri) ==
    [u \in DOMAIN refs \cup {includeUri} |->
        IF u = includeUri
        THEN (IF u \in DOMAIN refs THEN refs[u] ELSE {}) \cup {rootUri}
        ELSE refs[u]]

\* a visited test that never finds the uri
NeverVisited(visited, uri) == FALSE

\* indexedUris.has(uri)
Visited(visited, uri) == uri \in visited

RECURSIVE IndexDocument(_, _, _, _)
RECURSIVE IncludeLoop(_, _, _, _)

\* indexDocument(document, indexedUris, rootUri): M holds the two maps, the
\* visited set indexedUris, the mode, the disk and the log of the uris parsed
IndexDocument(M, uri, lines, rootUri) ==
    IF Visited(M.indexedUris, uri) THEN M
    ELSE LET index == ParsedIndex(uri, lines, M.caseSensitive)
         IN  Only({IncludeLoop(M1, index.includes, 1, rootUri) :
                     M1 \in {[M EXCEPT !.indexedUris = @ \cup {uri},
                                       !.documentIndex = MapSet(@, uri, index),
                                       !.parsed = Append(@, uri)]}})

\* the loop of indexDocument over index.includes, from entry i; a file that
\* cannot be read is logged and skipped
IncludeLoop(M, includes, i, rootUri) ==
    IF i > Len(includes) THEN M
    ELSE LET includeUri  == includes[i]
             includePath == FileURLToPath(includeUri)
             M1 == [M EXCEPT !.includeRefCount = AddIncludeRef(@, includeUri, rootUri)]
         IN  Only({IncludeLoop(M2, includes, i + 1, rootUri) :
                     M2 \in {IF ~Visited(M.indexedUris, includeUri)
                                 /\ includePath \notin Unreadable
                              THEN IndexDocument(M1, includeUri, M.disk[includePath], rootUri)
                              ELSE M1}})

\* the maps of the server as the record the operators above work on
Maps ==
    [documentIndex |-> documentIndex, includeRefCount |-> includeRefCount,
     indexedUris |-> {}, caseSensitive |-> globalSettings.caseSensitive,
     disk |-> disk, parsed |-> << >>]

\* indexDocument(doc) for a root document: a fresh visited set
IndexRoot(M, uri, lines) ==
    IndexDocument([M EXCEPT !.indexedUris = {}, !.parsed = << >>], uri, lines, uri)

RECURSIVE IndexAll(_, _, _)
\* documents.all().forEach(doc => indexDocument(doc)), from entry i
IndexAll(M, docs, i) ==
    IF i > Len(docs) THEN M
    ELSE Only({IndexAll(M1, docs, i + 1) :
                 M1 \in {IndexRoot(M, docs[i].key, docs[i].value)}})

\* the handler sends no diagnostics
NoDiagnostics == [uri |-> Null, cleared |-> TRUE, lines |-> << >>,
                  documentIndex |-> << >>, caseSensitive |-> FALSE]

\* sendDiagnostics({uri, diagnostics: validateDocument(document, documentIndex,
\* globalSettings.caseSensitive)}): validateDocument reads nothing but its
\* arguments, so the notification is recorded by the arguments it is computed from
Validated(uri, lines, index, caseSensitive) ==
    [uri |-> uri, cleared |-> FALSE, lines |-> lines,
     documentIndex |-> index, caseSensitive |-> caseSensitive]

\* sendDiagnostics({uri, diagnostics: []})
Cleared(uri) == [NoDiagnostics EXCEPT !.uri = uri]

\* the handler resolves no symbol
NoReply == [word |-> Null, uri |-> Null, line |-> 0, symbol |-> NotFound]

\* no parseDocument or validateDocument call is followed line by line
NoScan ==
    [pc |-> "idle", uri |-> Null, lines |-> << >>, caseSensitive |-> FALSE,
     lineNum |-> 0, P |-> ParseInit, blockStack |-> << >>, diagnostics |-> << >>,
     ranges |-> << >>]

Init ==
    /\ phase = "start"
    /\ hasConfigurationCapability = FALSE
    /\ globalSettings = [caseSensitive |-> FALSE]
    /\ pending = << >>
    /\ documents = << >>
    /\ documentIndex = << >>
    /\ includeRefCount = << >>
    /\ lastPass = << >>
    /\ published = NoDiagnostics
    /\ reply = NoReply
    /\ disk = DiskText
    /\ callStack = << >>
    /\ indexedUris = {}
    /\ scan = NoScan

\* the effect of a handler on the two maps, with what it parsed, sent and
\* resolved; a handler runs its indexing passes to their end
Outcome(M, sent, resolved) ==
    /\ \E left \in {M} :
           /\ documentIndex' = left.documentIndex
           /\ includeRefCount' = left.includeRefCount
           /\ lastPass' = left.parsed
    /\ published' = sent
    /\ reply' = resolved
    /\ UNCHANGED << disk, callStack, indexedUris, scan >>

Effect(M, sent) == Outcome(M, sent, NoReply)

\* connection.onInitialize
Initialize ==
    /\ phase = "start"
    /\ phase' = "initialized"
    /\ \E capability \in BOOLEAN : hasConfigurationCapability' = capability
    /\ Effect(Maps, NoDiagnostics)
    /\ UNCHANGED << globalSettings, pending, documents >>

\* connection.onInitialized: the configuration is requested, then every
\* open document is indexed under the settings in force
Initialized ==
    /\ phase = "initialized"
    /\ phase' = "running"
    /\ pending' = IF hasConfigurationCapability THEN Append(pending, "initial") ELSE pending
    /\ Effect(IndexAll(Maps, documents, 1), NoDiagnostics)
    /\ UNCHANGED << hasConfigurationCapability, globalSettings, documents >>

\* connection.onDidChangeConfiguration: the server asks the client for the
\* configuration
DidChangeConfiguration ==
    /\ phase = "running"
    /\ Len(pending) < MaxPending
    /\ pending' = IF hasConfigurationCapability THEN Append(pending, "change") ELSE pending
    /\ Effect(Maps, NoDiagnostics)
    /\ UNCHANGED << phase, hasConfigurationCapability, globalSettings, documents >>

\* the then-callback of the getConfiguration request of onInitialized, with
\* the client's value of 64tass.caseSensitive
InitialConfiguration(value) ==
    /\ pending # << >>
    /\ Head(pending) = "initial"
    /\ pending' = Tail(pending)
    /\ globalSettings' = [caseSensitive |-> value]
    /\ Effect(Maps, NoDiagnostics)
    /\ UNCHANGED << phase, hasConfigurationCapability, documents >>

\* the indexing of the then-callback of onDidChangeConfiguration
ReindexAll(M, docs) == IndexAll(M, docs, 1)

\* the then-callback of the getConfiguration request of
\* onDidChangeConfiguration: every open document is indexed again
ChangedConfiguration(value) ==
    /\ pending # << >>
    /\ Head(pending) = "change"
    /\ pending' = Tail(pending)
    /\ globalSettings' = [caseSensitive |-> value]
    /\ Effect(ReindexAll([Maps EXCEPT !.caseSensitive = value], documents), NoDiagnostics)
    /\ UNCHANGED << phase, hasConfigurationCapability, documents >>

\* the rejection callback of either getConfiguration request: a warning only
ConfigurationFailed ==
    /\ pending # << >>
    /\ pending' = Tail(pending)
    /\ Effect(Maps, NoDiagnostics)
    /\ UNCHANGED << phase, hasConfigurationCapability, globalSettings, documents >>

\* onDidChangeContent with the diagnostics computed before the document is
\* indexed again
ChangeContentValidateFirst(M, uri, lines) ==
    LET M0 == ClearIncludeRefs(M, uri)
    IN  [maps |-> IndexRoot(M0, uri, lines),
         sent |-> Validated(uri, lines, M0.documentIndex, M.caseSensitive)]

\* the body of documents.onDidChangeContent
ChangeContent(M, uri, lines) ==
    Only({[maps |-> M1,
           sent |-> Validated(uri, lines, M1.documentIndex, M.caseSensitive)] :
             M1 \in {IndexRoot(ClearIncludeRefs(M, uri), uri, lines)}})

\* documents.onDidChangeContent, fired when a document is opened and on
\* every edit: the TextDocuments manager holds the new text already
DidChangeContent(uri, lines) ==
    /\ phase = "running"
    /\ documents' = MapSet(documents, uri, lines)
    /\ \E R \in {ChangeContent(Maps, uri, lines)} : Effect(R.maps, R.sent)
    /\ UNCHANGED << phase, hasConfigurationCapability, globalSettings, pending >>

\* onDidClose without its call of clearIncludeRefs
CloseDocumentKeepIncludes(M, uri) ==
    [M EXCEPT !.documentIndex = MapDelete(@, uri)]

\* the body of documents.onDidClose
CloseDocument(M, uri) ==
    [ClearIncludeRefs(M, uri) EXCEPT !.documentIndex = MapDelete(@, uri)]

\* documents.onDidClose: the TextDocuments manager has dropped the document
DidClose(uri) ==
    /\ MapHas(documents, uri)
    /\ documents' = MapDelete(documents, uri)
    /\ Effect(CloseDocument(Maps, uri), Cleared(uri))
    /\ UNCHANGED << phase, hasConfigurationCapability, globalSettings, pending >>

\* connection.onHover for the word under the cursor: the symbol it resolves
Hover(word, uri, line) ==
    /\ phase = "running"
    /\ MapHas(documents, uri)
    /\ line < Len(MapGet(documents, uri))
    /\ Outcome(Maps, NoDiagnostics,
               [word |-> word, uri |-> uri, line |-> line,
                symbol |-> FindSymbolInfo(word, uri, line, documentIndex)])
    /\ UNCHANGED << phase, hasConfigurationCapability, globalSettings, pending, documents >>

\* the findAnonymousLabel call of validateDocument for the reference ref in
\* the operand of a line: the label it resolves
AnonymousReference(ref, uri, line) ==
    /\ phase = "running"
    /\ MapHas(documents, uri)
    /\ line < Len(MapGet(documents, uri))
    /\ Outcome(Maps, NoDiagnostics,
               [word |-> ref, uri |-> uri, line |-> line,
                symbol |-> FindAnonymousLabel(Ch(ref, 1), Len(ref), uri, line,
                                              documentIndex)])
    /\ UNCHANGED << phase, hasConfigurationCapability, globalSettings, pending, documents >>

Next ==
    \/ Initialize
    \/ Initialized
    \/ DidChangeConfiguration
    \/ \E value \in BOOLEAN : InitialConfiguration(value)
    \/ \E value \in BOOLEAN : ChangedConfiguration(value)
    \/ ConfigurationFailed
    \/ \E uri \in Uris : \E lines \in EditorTexts(uri) : DidChangeContent(uri, lines)
    \/ \E uri \in Uris : DidClose(uri)

Spec == Init /\ [][Next]_vars

(***************************************************************************)
(* The requests: the server runs, the configuration is known, documents    *)
(* with scopes and local symbols are opened, edited and closed, and hover  *)
(* requests resolve words on their lines.                                  *)
(***************************************************************************)
\* the last line a request may name
MaxLine == 8

InitResolve ==
    /\ phase = "running"
    /\ hasConfigurationCapability = TRUE
    /\ \E value \in BOOLEAN : globalSettings = [caseSensitive |-> value]
    /\ pending = << >>
    /\ documents = << >>
    /\ documentIndex = << >>
    /\ includeRefCount = << >>
    /\ lastPass = << >>
    /\ published = NoDiagnostics
    /\ reply = NoReply
    /\ disk = DiskText
    /\ callStack = << >>
    /\ indexedUris = {}
    /\ scan = NoScan

NextResolve ==
    \/ \E uri \in Uris : \E lines \in ResolverTextsOf(uri) : DidChangeContent(uri, lines)
    \/ \E uri \in Uris : DidClose(uri)
    \/ \E word \in Words : \E uri \in Uris : \E line \in 0..MaxLine : Hover(word, uri, line)
    \/ \E ref \in AnonymousRefs : \E uri \in Uris : \E line \in 0..MaxLine :
           AnonymousReference(ref, uri, line)

SpecResolve == InitResolve /\ [][NextResolve]_vars

(***************************************************************************)
(* One indexing pass, call by call: indexDocument(doc) for the first       *)
(* document opened, over every include graph of the files of GraphFiles.   *)
(* A frame of callStack is a call of indexDocument: i = 0 before its body  *)
(* runs, then the position of its loop over index.includes.                *)
(***************************************************************************)
RootUri == "file:///a.asm"

Call(uri, lines) == [uri |-> uri, lines |-> lines, includes |-> << >>, i |-> 0]

Top == callStack[Len(callStack)]

Pop(stack) == SubSeq(stack, 1, Len(stack) - 1)

InitIndex ==
    /\ phase = "running"
    /\ hasConfigurationCapability = FALSE
    /\ globalSettings = [caseSensitive |-> FALSE]
    /\ pending = << >>
    /\ \E graph \in [GraphFiles -> IncludeTexts] :
           disk = [path \in DOMAIN DiskText |->
                      IF \E f \in GraphFiles : path = "/" \o f
                      THEN graph[SubSeq(path, 2, Len(path))]
                      ELSE DiskText[path]]
    /\ documents = << [key |-> RootUri, value |-> disk[FileURLToPath(RootUri)]] >>
    /\ documentIndex = << >>
    /\ includeRefCount = << >>
    /\ lastPass = << >>
    /\ published = NoDiagnostics
    /\ reply = NoReply
    /\ callStack = << Call(RootUri, disk[FileURLToPath(RootUri)]) >>
    /\ indexedUris = {}
    /\ scan = NoScan

\* a call of indexDocument up to its loop: the visited test, parseDocument,
\* documentIndex.set
EnterIndexDocument ==
    /\ callStack # << >>
    /\ Top.i = 0
    /\ IF Visited(indexedUris, Top.uri)
       THEN /\ callStack' = Pop(callStack)
            /\ UNCHANGED << indexedUris, documentIndex, lastPass >>
       ELSE LET index == ParsedIndex(Top.uri, Top.lines, globalSettings.caseSensitive)
            IN  /\ indexedUris' = indexedUris \cup {Top.uri}
                /\ documentIndex' = MapSet(documentIndex, Top.uri, index)
                /\ lastPass' = Append(lastPass, Top.uri)
                /\ callStack' = [callStack EXCEPT ![Len(callStack)] =
                                     [@ EXCEPT !.includes = index.includes, !.i = 1]]
    /\ UNCHANGED << phase, hasConfigurationCapability, globalSettings, pending,
                    documents, includeRefCount, published, reply, disk, scan >>

\* one round of the loop over index.includes: the reference is counted, and
\* the file, if not visited yet and readable, is indexed by a nested call
IncludeNext ==
    /\ callStack # << >>
    /\ Top.i \in 1..Len(Top.includes)
    /\ LET includeUri  == Top.includes[Top.i]
           includePath == FileURLToPath(includeUri)
           advanced    == [callStack EXCEPT ![Len(callStack)].i = @ + 1]
       IN  /\ includeRefCount' = AddIncludeRef(includeRefCount, includeUri, callStack[1].uri)
           /\ IF ~Visited(indexedUris, includeUri) /\ includePath \notin Unreadable
              THEN /\ Len(callStack) < MaxDepth
                   /\ callStack' = Append(advanced, Call(includeUri, disk[includePath]))
              ELSE callStack' = advanced
    /\ UNCHANGED << phase, hasConfigurationCapability, globalSettings, pending,
                    documents, documentIndex, lastPass, published, reply, disk,
                    indexedUris, scan >>

\* the loop is over: the call returns
ReturnIndexDocument ==
    /\ callStack # << >>
    /\ Top.i > Len(Top.includes)
    /\ callStack' = Pop(callStack)
    /\ UNCHANGED << phase, hasConfigurationCapability, globalSettings, pending,
                    documents, documentIndex, includeRefCount, lastPass, published,
                    reply, disk, indexedUris, scan >>

NextIndex ==
    \/ EnterIndexDocument
    \/ IncludeNext
    \/ ReturnIndexDocument

\* the pass is synchronous code: it runs on while it has a step to take
SpecIndex == InitIndex /\ [][NextIndex]_vars /\ WF_vars(NextIndex)

\* the pass run call by call leaves the maps indexDocument leaves as a whole
PassAgrees ==
    callStack = << >> =>
        LET M == IndexRoot([Maps EXCEPT !.documentIndex = << >>,
                                        !.includeRefCount = << >>],
                           RootUri, disk[FileURLToPath(RootUri)])
        IN  /\ documentIndex = M.documentIndex
            /\ includeRefCount = M.includeRefCount
            /\ lastPass = M.parsed
(***************************************************************************)
(* constants.ts: the block directives of the diagnostics                   *)
(***************************************************************************)
\* Object.entries(OPENER_TO_CLOSERS), in insertion order
OPENER_TO_CLOSERS ==
    << [open |-> ".proc",      closers |-> << ".pend", ".endproc" >>],
       [open |-> ".block",     closers |-> << ".bend", ".endblock" >>],
       [open |-> ".macro",     closers |-> << ".endm", ".endmacro" >>],
       [open |-> ".function",  closers |-> << ".endf", ".endfunction" >>],
       [open |-> ".struct",    closers |-> << ".ends", ".endstruct" >>],
       [open |-> ".union",     closers |-> << ".endu", ".endunion" >>],
       [open |-> ".if",        closers |-> << ".endif", ".fi" >>],
       [open |-> ".ifeq",      closers |-> << ".endif", ".fi" >>],
       [open |-> ".ifne",      closers |-> << ".endif", ".fi" >>],
       [open |-> ".ifmi",      closers |-> << ".endif", ".fi" >>],
       [open |-> ".ifpl",      closers |-> << ".endif", ".fi" >>],
       [open |-> ".for",       closers |-> << ".next", ".endfor" >>],
       [open |-> ".bfor",      closers |-> << ".next", ".endfor" >>],
       [open |-> ".rept",      closers |-> << ".next", ".endrept" >>],
       [open |-> ".brept",     closers |-> << ".next", ".endrept" >>],
       [open |-> ".while",     closers |-> << ".next", ".endwhile" >>],
       [open |-> ".bwhile",    closers |-> << ".next", ".endwhile" >>],
       [open |-> ".switch",    closers |-> << ".endswitch" >>],
       [open |-> ".comment",   closers |-> << ".endc", ".endcomment" >>],
       [open |-> ".weak",      closers |-> << ".endweak" >>],
       [open |-> ".with",      closers |-> << ".endwith" >>],
       [open |-> ".encode",    closers |-> << ".endencode" >>],
       [open |-> ".alignblk",  closers |-> << ".endalignblk" >>],
       [open |-> ".page",      closers |-> << ".endp", ".endpage" >>],
       [open |-> ".logical",   closers |-> << ".endlogical" >>],
       [open |-> ".virtual",   closers |-> << ".endv", ".endvirtual" >>],
       [open |-> ".namespace", closers |-> << ".endn", ".endnamespace" >>],
       [open |-> ".section",   closers |-> << ".send", ".endsection" >>],
       [open |-> ".segment",   closers |-> << ".endsegment" >>] >>

\* OPENER_TO_CLOSERS[open]
ClosersOf(open) ==
    OPENER_TO_CLOSERS[CHOOSE i \in 1..Len(OPENER_TO_CLOSERS) :
                          OPENER_TO_CLOSERS[i].open = open].closers

\* FOLDING_PAIRS: every opener with its primary closer; its keys keep the
\* order of OPENER_TO_CLOSERS
FOLDING_PAIRS ==
    [i \in 1..Len(OPENER_TO_CLOSERS) |->
        [open |-> OPENER_TO_CLOSERS[i].open, close |-> OPENER_TO_CLOSERS[i].closers[1]]]

\* array.includes
SeqIncludes(seq, x) == \E i \in 1..Len(seq) : seq[i] = x

\* the most closers an opener of OPENER_TO_CLOSERS has
MaxClosers == 2

\* the rounds of the two loops that build CLOSING_DIRECTIVES, in their
\* order: closer j of opener i, at place n
LoopPairs ==
    SelectSeq([n \in 1..(Len(OPENER_TO_CLOSERS) * MaxClosers) |->
                  [n |-> n, i |-> ((n - 1) \div MaxClosers) + 1, j |-> ((n - 1) % MaxClosers) + 1]],
              LAMBDA g : g.j <= Len(OPENER_TO_CLOSERS[g.i].closers))

PairOpen(g) == OPENER_TO_CLOSERS[g.i].open

PairClose(g) == OPENER_TO_CLOSERS[g.i].closers[g.j]

\* what the rounds leave: a closer gets its entry in the round that meets
\* it first, and the opener of every round of the closer is pushed once
ClosingDirectivesOf(rounds) ==
    LET first == SelectSeq(rounds, LAMBDA g :
                     \A h \in 1..Len(rounds) :
                         (rounds[h].n < g.n) => PairClose(rounds[h]) # PairClose(g))
        pushed(close) == SelectSeq(rounds, LAMBDA g :
                     /\ PairClose(g) = close
                     /\ \A h \in 1..Len(rounds) :
                            (rounds[h].n < g.n /\ PairClose(rounds[h]) = close)
                                => PairOpen(rounds[h]) # PairOpen(g))
    IN  [k \in 1..Len(first) |->
            [close   |-> PairClose(first[k]),
             openers |-> [m \in 1..Len(pushed(PairClose(first[k]))) |->
                             PairOpen(pushed(PairClose(first[k]))[m])]]]

\* the closers built from the primary closer of every opener only
PrimaryClosingDirectives == ClosingDirectivesOf(SelectSeq(LoopPairs, LAMBDA g : g.j = 1))

\* Object.entries(CLOSING_DIRECTIVES): closer -> the openers it can close
CLOSING_DIRECTIVES == ClosingDirectivesOf(LoopPairs)

(***************************************************************************)
(* utils.ts                                                                *)
(***************************************************************************)
RECURSIVE CommentStartAnyQuote(_, _, _)
\* the scan with a string that ends at either quote
CommentStartAnyQuote(line, i, stringChar) ==
    IF i > Len(line) THEN 0
    ELSE IF stringChar # ""
    THEN IF Ch(line, i) \in {"\"", "'"}
         THEN IF i + 1 <= Len(line) /\ Ch(line, i + 1) = Ch(line, i)
              THEN CommentStartAnyQuote(line, i + 2, stringChar)
              ELSE CommentStartAnyQuote(line, i + 1, "")
         ELSE CommentStartAnyQuote(line, i + 1, stringChar)
    ELSE IF Ch(line, i) \in {"\"", "'"} THEN CommentStartAnyQuote(line, i + 1, Ch(line, i))
    ELSE IF Ch(line, i) = ";" THEN i
    ELSE CommentStartAnyQuote(line, i + 1, "")

RECURSIVE CommentStartFrom(_, _, _)
\* the scan of parseLineStructure from position i, stringChar being the
\* quote of the string the scan is in ("" outside): the 1-based position of
\* the ";" that starts the comment, 0 when there is none
CommentStartFrom(line, i, stringChar) ==
    IF i > Len(line) THEN 0
    ELSE IF stringChar # ""
    THEN IF Ch(line, i) = stringChar
         THEN IF i + 1 <= Len(line) /\ Ch(line, i + 1) = stringChar
              THEN CommentStartFrom(line, i + 2, stringChar)
              ELSE CommentStartFrom(line, i + 1, "")
         ELSE CommentStartFrom(line, i + 1, stringChar)
    ELSE IF Ch(line, i) \in {"\"", "'"} THEN CommentStartFrom(line, i + 1, Ch(line, i))
    ELSE IF Ch(line, i) = ";" THEN i
    ELSE CommentStartFrom(line, i + 1, "")

\* parseLineStructure(line).code
LineCode(line) ==
    LET k == CommentStartFrom(line, 1, "")
    IN  IF k = 0 THEN line ELSE SubSeq(line, 1, k - 1)

\* String.prototype.indexOf, 0-based; -1 when absent
IndexOf(s, sub) ==
    IF \E p \in 1..Len(s) : LitAt(s, p, sub)
    THEN (CHOOSE p \in 1..Len(s) : LitAt(s, p, sub) /\ \A q \in 1..(p - 1) : ~LitAt(s, q, sub)) - 1
    ELSE 0 - 1

(***************************************************************************)
(* diagnostics.ts: validateDocument, its duplicate-label check and its     *)
(* block stack.  A diagnostic is its severity, its range (on one line) and *)
(* its message.                                                            *)
(***************************************************************************)
Diagnostic(severity, line, startChar, endChar, message) ==
    [severity |-> severity, line |-> line, startChar |-> startChar,
     endChar |-> endChar, message |-> message]

\* `${label.scopePath ?? 'global'}:${label.localScope ?? 'none'}:${label.name}`
DuplicateKey(label) ==
    (IF label.scopePath = Null THEN "global" ELSE label.scopePath) \o ":" \o
    (IF label.localScope = Null THEN "none" ELSE label.localScope) \o ":" \o
    label.name

RECURSIVE DuplicateLoop(_, _, _, _)
\* the loop over index.labels from label i: seenLabels as the set of its
\* keys; the diagnostics so far
DuplicateLoop(labels, i, seenLabels, diagnostics) ==
    IF i > Len(labels) THEN diagnostics
    ELSE IF labels[i].isAnonymous
    THEN DuplicateLoop(labels, i + 1, seenLabels, diagnostics)
    ELSE IF DuplicateKey(labels[i]) \in seenLabels
    THEN DuplicateLoop(labels, i + 1, seenLabels,
             Append(diagnostics,
                    Diagnostic("Error", labels[i].line, labels[i].startChar, labels[i].endChar,
                               "Duplicate label '" \o labels[i].originalName \o "'")))
    ELSE DuplicateLoop(labels, i + 1, seenLabels \cup {DuplicateKey(labels[i])}, diagnostics)

\* the loop over Object.keys(FOLDING_PAIRS): every opener the line holds is
\* pushed, in the order of the keys.  The opener pattern is the closer
\* pattern of parseDocument: (?:^|\s), the directive, \b
OpenBlocks(blockStack, codeLower, lineNum) ==
    LET held == SelectSeq(FOLDING_PAIRS, LAMBDA e : ClosePatternTest(codeLower, e.open))
    IN  blockStack \o [k \in 1..Len(held) |-> [directive |-> held[k].open, line |-> lineNum]]

RECURSIVE InnermostAccepted(_, _, _)
\* the most recent entry whose directive is one of the openers, from index i
\* downwards; 0 if none
InnermostAccepted(blockStack, openers, i) ==
    IF i < 1 THEN 0
    ELSE IF SeqIncludes(openers, blockStack[i].directive) THEN i
    ELSE InnermostAccepted(blockStack, openers, i - 1)

RECURSIVE JoinCommas(_)
\* openers.join(', ')
JoinCommas(openers) ==
    IF Len(openers) = 1 THEN openers[1]
    ELSE openers[1] \o ", " \o JoinCommas(Tail(openers))

\* a closer the line holds, with an entry that accepts it: the entry is
\* spliced out
CloseBlockFound(V, found) ==
    [V EXCEPT !.blockStack = Splice(@, found)]

\* a closer that reports its error and pops the top of the stack too
CloseBlockNotFoundPopsTop(V, close, openers, codeLower, lineNum) ==
    LET startCol == IF IndexOf(codeLower, close) >= 0 THEN IndexOf(codeLower, close) ELSE 0
    IN  [blockStack  |-> SubSeq(V.blockStack, 1, Len(V.blockStack) - 1),
         diagnostics |-> Append(V.diagnostics,
             Diagnostic("Error", lineNum, startCol, startCol + Len(close),
                        "'" \o close \o "' without matching " \o JoinCommas(openers)))]

\* a closer the line holds, with no entry that accepts it: the error, at the
\* first occurrence of the closer in the line
CloseBlockNotFound(V, close, openers, codeLower, lineNum) ==
    LET startCol == IF IndexOf(codeLower, close) >= 0 THEN IndexOf(codeLower, close) ELSE 0
    IN  [V EXCEPT !.diagnostics = Append(@,
             Diagnostic("Error", lineNum, startCol, startCol + Len(close),
                        "'" \o close \o "' without matching " \o JoinCommas(openers)))]

RECURSIVE CloseBlocks(_, _, _, _)
\* the loop over the entries of CLOSING_DIRECTIVES the line holds, from the
\* first of held: V = [blockStack, diagnostics]
CloseBlocks(V, held, codeLower, lineNum) ==
    IF held = << >> THEN V
    ELSE LET close   == Head(held).close
             openers == Head(held).openers
             found   == InnermostAccepted(V.blockStack, openers, Len(V.blockStack))
         IN  Only({CloseBlocks(W, Tail(held), codeLower, lineNum) :
                     W \in {IF found > 0 THEN CloseBlockFound(V, found)
                            ELSE CloseBlockNotFound(V, close, openers, codeLower, lineNum)}})

\* the block-stack part of the body of the line loop of validateDocument:
\* the openers of the line are pushed, then its closers looked up, in the
\* order of Object.entries(CLOSING_DIRECTIVES)
ValidateBlocks(V, line, lineNum) ==
    LET codeLower == ToLowerCase(LineCode(line))
        held == SelectSeq(CLOSING_DIRECTIVES, LAMBDA e : ClosePatternTest(codeLower, e.close))
    IN  CloseBlocks([V EXCEPT !.blockStack = OpenBlocks(@, codeLower, lineNum)],
                    held, codeLower, lineNum)

\* the directives whose closer may be left out
OptionalClose == {".logical"}

\* FOLDING_PAIRS[directive]
PrimaryCloser(directive) ==
    FOLDING_PAIRS[CHOOSE i \in 1..Len(FOLDING_PAIRS) : FOLDING_PAIRS[i].open = directive].close

\* the unclosed-block loop that knows no optional closer
UnclosedLoopAllRequired(blockStack, lines, i, diagnostics) ==
    diagnostics \o
    [k \in 1..Len(blockStack) |->
        Diagnostic("Error", blockStack[k].line, 0, Len(lines[blockStack[k].line + 1]),
                   "Unclosed '" \o blockStack[k].directive \o "' - missing '"
                       \o PrimaryCloser(blockStack[k].directive) \o "'")]

RECURSIVE UnclosedLoop(_, _, _, _)
\* the loop over the entries left on blockStack, from entry i
UnclosedLoop(blockStack, lines, i, diagnostics) ==
    IF i > Len(blockStack) THEN diagnostics
    ELSE IF blockStack[i].directive \in OptionalClose
    THEN UnclosedLoop(blockStack, lines, i + 1, diagnostics)
    ELSE UnclosedLoop(blockStack, lines, i + 1,
             Append(diagnostics,
                    Diagnostic("Error", blockStack[i].line, 0, Len(lines[blockStack[i].line + 1]),
                               "Unclosed '" \o blockStack[i].directive \o "' - missing '"
                                   \o PrimaryCloser(blockStack[i].directive) \o "'")))

(***************************************************************************)
(* server.ts: computeFoldingRanges.  F = [stack, ranges].                  *)
(***************************************************************************)
FoldingRange(startLine, endLine) ==
    [startLine |-> startLine, endLine |-> endLine, kind |-> "region"]

\* the loop over the keys of FOLDING_PAIRS: an entry for every opener the
\* line holds
FoldOpen(stack, line, lineNum) ==
    LET held == SelectSeq(FOLDING_PAIRS, LAMBDA e : ClosePatternTest(line, e.open))
    IN  stack \o [k \in 1..Len(held) |-> [directive |-> held[k].open, line |-> lineNum]]

\* a closer that folds from the top of the stack
FoldCloseTop(F, i, lineNum) ==
    [stack  |-> SubSeq(F.stack, 1, Len(F.stack) - 1),
     ranges |-> Append(F.ranges, FoldingRange(F.stack[Len(F.stack)].line, lineNum))]

\* a closer with an entry that accepts it: the entry is spliced out and the
\* range from its line to the line of the closer is pushed
FoldClose(F, i, lineNum) ==
    [stack  |-> Splice(F.stack, i),
     ranges |-> Append(F.ranges, FoldingRange(F.stack[i].line, lineNum))]

RECURSIVE FoldClosers(_, _, _)
\* the loop over the entries of CLOSING_DIRECTIVES the line holds
FoldClosers(F, held, lineNum) ==
    IF held = << >> THEN F
    ELSE LET found == InnermostAccepted(F.stack, Head(held).openers, Len(F.stack))
         IN  Only({FoldClosers(G, Tail(held), lineNum) :
                     G \in {IF found > 0 THEN FoldClose(F, found, lineNum) ELSE F}})

RECURSIVE FoldLines(_, _, _)
\* the loop over the lines, from line number lineNum
FoldLines(F, lines, lineNum) ==
    IF lineNum >= Len(lines) THEN F
    ELSE LET line == ToLowerCase(LineCode(lines[lineNum + 1]))
             held == SelectSeq(CLOSING_DIRECTIVES, LAMBDA e : ClosePatternTest(line, e.close))
         IN  Only({FoldLines(G, lines, lineNum + 1) :
                     G \in {FoldClosers([F EXCEPT !.stack = FoldOpen(@, line, lineNum)],
                                        held, lineNum)}})

ComputeFoldingRanges(lines) ==
    FoldLines([stack |-> << >>, ranges |-> << >>], lines, 0).ranges

(***************************************************************************)
(* utils.ts: tokenizeExpression, and the operator check of                 *)
(* validateDocument.  A token is its type, its text and its 0-based start. *)
(***************************************************************************)
HexDigits == Digits \cup {"a", "b", "c", "d", "e", "f", "A", "B", "C", "D", "E", "F"}

BinDigits == {"0", "1"}

RECURSIVE ClassEnd(_, _, _)
\* [class]* from position i: the position after the run
ClassEnd(s, i, class) ==
    IF i <= Len(s) /\ Ch(s, i) \in class THEN ClassEnd(s, i + 1, class) ELSE i

\* the operators pattern without its comma
OperatorEndNoComma(s, i) ==
    IF LitAt(s, i, "<<") \/ LitAt(s, i, ">>") THEN i + 2
    ELSE IF Ch(s, i) \in {"+", "-", "*", "/", "&", "|", "<", ">", "^"} THEN i + 1
    ELSE 0

\* /^(,|\+|-|\*|\/|&|\||<<|>>|<|>|\^)/ at position i: the position after the
\* operator, 0 if none
OperatorEnd(s, i) ==
    IF LitAt(s, i, "<<") \/ LitAt(s, i, ">>") THEN i + 2
    ELSE IF Ch(s, i) \in {",", "+", "-", "*", "/", "&", "|", "<", ">", "^"} THEN i + 1
    ELSE 0

\* /^(\$[0-9a-fA-F]+|0x[0-9a-fA-F]+|%[01]+|0b[01]+|\d+|[a-zA-Z_][a-zA-Z0-9_]*)/
\* at position i: the position after the value, 0 if none
ValueEnd(s, i) ==
    IF Ch(s, i) = "$" /\ ClassEnd(s, i + 1, HexDigits) > i + 1
    THEN ClassEnd(s, i + 1, HexDigits)
    ELSE IF LitAt(s, i, "0x") /\ ClassEnd(s, i + 2, HexDigits) > i + 2
    THEN ClassEnd(s, i + 2, HexDigits)
    ELSE IF Ch(s, i) = "%" /\ ClassEnd(s, i + 1, BinDigits) > i + 1
    THEN ClassEnd(s, i + 1, BinDigits)
    ELSE IF LitAt(s, i, "0b") /\ ClassEnd(s, i + 2, BinDigits) > i + 2
    THEN ClassEnd(s, i + 2, BinDigits)
    ELSE IF Ch(s, i) \in Digits THEN ClassEnd(s, i, Digits)
    ELSE IF IsAlpha(Ch(s, i)) \/ Ch(s, i) = "_" THEN WordEnd(s, i + 1)
    ELSE 0

RECURSIVE StringEnd(_, _, _)
\* the scan of a string literal from position i, after its opening quote:
\* the position after the closing quote, or after the end of the expression
StringEnd(s, i, quote) ==
    IF i > Len(s) THEN i
    ELSE IF Ch(s, i) = quote
    THEN IF i + 1 <= Len(s) /\ Ch(s, i + 1) = quote
         THEN StringEnd(s, i + 2, quote)
         ELSE i + 1
    ELSE StringEnd(s, i + 1, quote)

Token(type, expr, from, to) ==
    [type |-> type, text |-> SubSeq(expr, from, to - 1), start |-> from - 1]

RECURSIVE TokenizeFrom(_, _, _)
\* the while loop of tokenizeExpression from position pos (1-based)
TokenizeFrom(expr, pos, tokens) ==
    IF pos > Len(expr) THEN tokens
    ELSE IF IsSpace(Ch(expr, pos)) THEN TokenizeFrom(expr, pos + 1, tokens)
    ELSE IF Ch(expr, pos) \in {"\"", "'"}
    THEN TokenizeFrom(expr, StringEnd(expr, pos + 1, Ch(expr, pos)),
             Append(tokens, Token("value", expr, pos, StringEnd(expr, pos + 1, Ch(expr, pos)))))
    ELSE IF OperatorEnd(expr, pos) > 0
    THEN TokenizeFrom(expr, OperatorEnd(expr, pos),
             Append(tokens, Token("operator", expr, pos, OperatorEnd(expr, pos))))
    ELSE IF Ch(expr, pos) \in {"(", ")"}
    THEN TokenizeFrom(expr, pos + 1, Append(tokens, Token("paren", expr, pos, pos + 1)))
    ELSE IF ValueEnd(expr, pos) > 0
    THEN TokenizeFrom(expr, ValueEnd(expr, pos),
             Append(tokens, Token("value", expr, pos, ValueEnd(expr, pos))))
    ELSE TokenizeFrom(expr, pos + 1, tokens)

\* tokenizeExpression(expr)
TokenizeExpression(expr) == TokenizeFrom(expr, 1, << >>)

\* the directives of dataDirectiveMatch
OperandDirectives ==
    << "byte", "word", "long", "dword", "addr", "rta", "text", "ptext", "null", "fill",
       "char", "dint", "lint", "sint" >>

\* \s+(.+)$ at position q: the operand, Null if none.  When only white space
\* is left, \s+ gives its last character back to (.+)
OperandAt(code, q) ==
    IF q > Len(code) \/ ~IsSpace(Ch(code, q)) THEN Null
    ELSE IF SpaceEnd(code, q) <= Len(code) THEN SubSeq(code, SpaceEnd(code, q), Len(code))
    ELSE IF Len(code) > q THEN SubSeq(code, Len(code), Len(code))
    ELSE Null

\* \.(byte|word|...)\s+(.+)$ at position p, under the i flag
DirectiveOperandAt(code, p) ==
    LET held == SelectSeq(OperandDirectives, LAMBDA d :
                    /\ LitAtCI(code, p + 1, d)
                    /\ OperandAt(code, p + 1 + Len(d)) # Null)
    IN  IF p <= Len(code) /\ Ch(code, p) = "." /\ held # << >>
        THEN OperandAt(code, p + 1 + Len(held[1]))
        ELSE Null

\* the position after ^\s*(?:[a-zA-Z_][a-zA-Z0-9_]*\s+) , 0 when the line
\* has no such start
AfterLeadingName(code) ==
    LET p == SpaceEnd(code, 1)
        e == WordEnd(code, p + 1)
    IN  IF p <= Len(code) /\ (IsAlpha(Ch(code, p)) \/ Ch(code, p) = "_") /\ SpaceEnd(code, e) > e
        THEN SpaceEnd(code, e)
        ELSE 0

\* dataDirectiveMatch: its group 2, Null when the pattern does not match.
\* The optional leading name is tried first.
DataDirectiveMatch(code) ==
    LET a == AfterLeadingName(code)
    IN  IF a > 0 /\ DirectiveOperandAt(code, a) # Null THEN DirectiveOperandAt(code, a)
        ELSE DirectiveOperandAt(code, SpaceEnd(code, 1))

\* ([a-zA-Z]{3})\s+(.+)$ at position p: [op |-> group 1, operand |-> group 2],
\* both Null when none
OpcodeOperandAt(code, p) ==
    IF /\ p + 2 <= Len(code)
       /\ \A k \in p..(p + 2) : IsAlpha(Ch(code, k))
       /\ OperandAt(code, p + 3) # Null
    THEN [op |-> SubSeq(code, p, p + 2), operand |-> OperandAt(code, p + 3)]
    ELSE [op |-> Null, operand |-> Null]

\* opcodeMatch
OpcodeMatch(code) ==
    LET a == AfterLeadingName(code)
    IN  IF a > 0 /\ OpcodeOperandAt(code, a).op # Null THEN OpcodeOperandAt(code, a)
        ELSE OpcodeOperandAt(code, SpaceEnd(code, 1))

\* /^[a-zA-Z_][a-zA-Z0-9_]*\s*[:=]/.test(code)
LabelDefinitionTest(code) ==
    /\ Len(code) >= 1
    /\ IsAlpha(Ch(code, 1)) \/ Ch(code, 1) = "_"
    /\ SpaceEnd(code, WordEnd(code, 2)) <= Len(code)
    /\ Ch(code, SpaceEnd(code, WordEnd(code, 2))) \in {":", "="}

\* /^[a-zA-Z_][a-zA-Z0-9_]*\s+\.(macro|function|proc|block|struct|union)\b/i.test(code)
ScopeDefinitionTest(code) ==
    /\ Len(code) >= 1
    /\ IsAlpha(Ch(code, 1)) \/ Ch(code, 1) = "_"
    /\ LET e == WordEnd(code, 2)
           p == SpaceEnd(code, e)
       IN  /\ p > e
           /\ \E d \in {"macro", "function", "proc", "block", "struct", "union"} :
                  LitAtCI(code, p, "." \o d) /\ BoundaryAt(code, p + 1 + Len(d))

\* the loop over the neighbouring tokens: an error for every value that
\* follows a value
OperatorErrors(tokens, operandStart, lineNum) ==
    LET flagged == SelectSeq([i \in 1..(Len(tokens) - 1) |-> i], LAMBDA i :
                       tokens[i].type = "value" /\ tokens[i + 1].type = "value")
    IN  [k \in 1..Len(flagged) |->
            Diagnostic("Error", lineNum,
                       operandStart + tokens[flagged[k] + 1].start,
                       operandStart + tokens[flagged[k] + 1].start
                           + Len(tokens[flagged[k] + 1].text),
                       "An operator is expected before '" \o tokens[flagged[k] + 1].text \o "'")]

\* the operator check of the body of the line loop: the lines the loop skips
\* and the lines without data directive have none
OperatorCheck(code, lineNum) ==
    LET oc == OpcodeMatch(code)
        dd == DataDirectiveMatch(code)
        operand == IF oc.op # Null /\ ToLowerCase(oc.op) \in OPCODES THEN oc.operand ELSE dd
    IN  IF Trim(code) = "" \/ LabelDefinitionTest(code) \/ ScopeDefinitionTest(code) THEN << >>
        ELSE IF dd = Null THEN << >>
        ELSE OperatorErrors(TokenizeExpression(operand), IndexOf(code, operand), lineNum)

\* the check of the anonymous references of the body of the line loop: of
\* the runs of "+" and "-" in the operand only one that has nothing but
\* white space before it is looked up; the test that guards the check is
\* opcodeMatch alone
AnonymousReferenceCheck(code, lineNum, uri, index) ==
    LET oc == OpcodeMatch(code)
        dd == DataDirectiveMatch(code)
        operand == IF oc.op # Null /\ ToLowerCase(oc.op) \in OPCODES THEN oc.operand ELSE dd
        p     == SpaceEnd(operand, 1)
        r     == SignEnd(operand, p)
        ref   == SubSeq(operand, p, r - 1)
        after == IF r <= Len(operand) THEN Ch(operand, r) ELSE " "
    IN  IF Trim(code) = "" \/ LabelDefinitionTest(code) \/ ScopeDefinitionTest(code) THEN << >>
        ELSE IF operand = Null \/ oc.op = Null THEN << >>
        ELSE IF r = p \/ ~AllSameSymbol(ref) THEN << >>
        ELSE IF IsWord(after) THEN << >>
        ELSE IF FindAnonymousLabel(Ch(ref, 1), Len(ref), uri, lineNum, index).name # Null
             THEN << >>
        ELSE << Diagnostic("Warning", lineNum,
                           IndexOf(code, operand) + p - 1,
                           IndexOf(code, operand) + p - 1 + Len(ref),
                           "No " \o (IF Ch(ref, 1) = "+" THEN "forward" ELSE "backward")
                                 \o " anonymous label found") >>

(***************************************************************************)
(* One document, line by line: parseDocument scans it, the index is        *)
(* stored, and validateDocument checks the labels, follows the block       *)
(* directives, checks the operands of the data directives and the          *)
(* anonymous references, and reports the blocks left open.  The warnings   *)
(* of the macro and symbol reference checks of the same loop read and      *)
(* change none of the state below.                                         *)
(***************************************************************************)
\* the most lines of a text put together from ScanLines
MaxScanLines == 3

\* the lines the free texts are put together from
ScanLines ==
    {"s .proc", "global .proc", " .pend", " .endproc", " .for", " .next",
     " .logical", "x = 1", "X = 1"}

FreeTexts == UNION {[1..n -> ScanLines] : n \in 1..MaxScanLines}

\* every scope-creating directive, closed by each of its closers
CloserTexts ==
    UNION {{<< "Out = 1", "s " \o SCOPE_OPENERS[i].open, "In = 2", " " \o close, "After = 3" >> :
               close \in {ClosersOf(SCOPE_OPENERS[i].open)[j] :
                             j \in 1..Len(ClosersOf(SCOPE_OPENERS[i].open))}} :
           i \in 1..Len(SCOPE_OPENERS)}

\* every opener with each of its closers
BlockPairs ==
    UNION {{[open |-> OPENER_TO_CLOSERS[i].open, close |-> OPENER_TO_CLOSERS[i].closers[j]] :
               j \in 1..Len(OPENER_TO_CLOSERS[i].closers)} :
           i \in 1..Len(OPENER_TO_CLOSERS)}

\* the pairs that take the outer place of the nested texts
OuterPairs ==
    {p \in BlockPairs : p.open \in {".proc", ".block", ".if", ".for", ".page", ".logical"}}

\* the line of an opener: a scope-creating directive names its scope
OpenerLine(open, name) ==
    IF open \in ScopeOpenerKeys THEN name \o " " \o open ELSE " " \o open

\* correctly nested texts: two blocks, one in the other or one after the other
NestedTexts ==
    {<< OpenerLine(p.open, "s"), OpenerLine(q.open, "t"), " " \o q.close, " " \o p.close >> :
        p \in OuterPairs, q \in BlockPairs} \cup
    {<< OpenerLine(p.open, "s"), " " \o p.close, OpenerLine(q.open, "t"), " " \o q.close >> :
        p \in OuterPairs, q \in BlockPairs}

\* texts with comments, blank lines, anonymous scopes, code labels, local
\* symbols and openers in other letter cases
FixedTexts ==
    { << "; c", "", "s .proc ; c", " .block", "t .block", "", " .bend", " .bend", " .pend", "z" >>,
      << "_a = 1", "none", "_a = 2", "_a = 3", "+", "+", "-" >>,
      << "a", "_x", "b", "_x", "_x" >>,
      << "Out = 1", "s .PROC", "In = 2", " .pend" >>,
      << "s .Block", "t .macro a, b", " .endm", " .bend", "u .byte 1" >>,
      << "a", "_x", "s .proc", "_x = 1", " .pend", "_y := 2 ; c", "b", "_x" >>,
      << "a", "++", " ---", "+-", "s .proc", "-- lda #1", "+:", " .pend", "-+ ; c", "- ; c" >>,
      << "s .proc", "In = 1", " nop ; .pend", "After = 2", " .pend", "; t .proc", " nop ; u .block" >> }

\* the operands of the data lines: values, and what stands between two values
DataValues == {"1", "$F", "x", "'a b'"}

DataSeparators == {" ", ",", " - ", "<<", "("}

DataPrefixes == {" .byte ", "lab .WORD "}

\* the most values of an operand
MaxValues == 3

RECURSIVE OperandsOf(_)
\* the operands of n values
OperandsOf(n) ==
    IF n = 1 THEN DataValues
    ELSE {o \o sep \o v : o \in OperandsOf(n - 1), sep \in DataSeparators, v \in DataValues}

\* one data line, and a data line after a label
DataTexts ==
    {<< prefix \o o >> : prefix \in DataPrefixes, o \in UNION {OperandsOf(n) : n \in 1..MaxValues}}
    \cup {<< "x = 1", " .byte 1 2 3 4", "lda .byte 1 2", " lda #1 2", " .byte" >>}

\* operands that begin with "+" or "-", after opcodes and after data directives
AnonymousTexts ==
    { << "-", " bne -", " bne --", " bne +", "lp bne ++ ; c", "+", " jmp +-", " lda #-1" >>,
      << " .byte -$F" >>,
      << "lab .byte -$F" >>,
      << "tbl .word - 1, +" >>,
      << "-", "v .byte -" >>,
      << "mask .byte +1", " ldx -1" >> }

ScanTexts ==
    FreeTexts \cup CloserTexts \cup NestedTexts \cup FixedTexts \cup DataTexts
        \cup AnonymousTexts

InitScan ==
    /\ phase = "running"
    /\ hasConfigurationCapability = FALSE
    /\ globalSettings \in [caseSensitive : BOOLEAN]
    /\ pending = << >>
    /\ \E lines \in ScanTexts :
           /\ documents = << [key |-> RootUri, value |-> lines] >>
           /\ scan = [NoScan EXCEPT !.pc = "parse", !.uri = RootUri, !.lines = lines,
                                    !.caseSensitive = globalSettings.caseSensitive]
    /\ documentIndex = << >>
    /\ includeRefCount = << >>
    /\ lastPass = << >>
    /\ published = NoDiagnostics
    /\ reply = NoReply
    /\ disk = DiskText
    /\ callStack = << >>
    /\ indexedUris = {}

\* one round of the line loop of parseDocument
ParseLine ==
    /\ scan.pc = "parse"
    /\ scan.lineNum < Len(scan.lines)
    /\ scan' = [scan EXCEPT
                  !.P = ProcessLine(scan.P, scan.uri, scan.lines[scan.lineNum + 1],
                                    scan.lineNum, scan.caseSensitive),
                  !.lineNum = @ + 1]
    /\ UNCHANGED << phase, hasConfigurationCapability, globalSettings, pending, documents,
                    documentIndex, includeRefCount, lastPass, published, reply, disk,
                    callStack, indexedUris >>

\* parseDocument returns and indexDocument stores the index
ParseReturn ==
    /\ scan.pc = "parse"
    /\ scan.lineNum = Len(scan.lines)
    /\ documentIndex' = MapSet(documentIndex, scan.uri,
                               [labels |-> scan.P.labels, scopeAtLine |-> scan.P.scopeAtLine,
                                includes |-> scan.P.includes])
    /\ lastPass' = Append(lastPass, scan.uri)
    /\ scan' = [scan EXCEPT !.pc = "validate", !.lineNum = 0]
    /\ UNCHANGED << phase, hasConfigurationCapability, globalSettings, pending, documents,
                    includeRefCount, published, reply, disk, callStack, indexedUris >>

\* validateDocument up to its line loop: the duplicate-label check
CheckDuplicates ==
    /\ scan.pc = "validate"
    /\ MapHas(documentIndex, scan.uri)
    /\ scan' = [scan EXCEPT
                  !.pc = "blocks",
                  !.diagnostics = DuplicateLoop(MapGet(documentIndex, scan.uri).labels,
                                                1, {}, << >>)]
    /\ UNCHANGED << phase, hasConfigurationCapability, globalSettings, pending, documents,
                    documentIndex, includeRefCount, lastPass, published, reply, disk,
                    callStack, indexedUris >>

\* one round of the line loop of validateDocument
ValidateLine ==
    /\ scan.pc = "blocks"
    /\ scan.lineNum < Len(scan.lines)
    /\ \E V \in {ValidateBlocks([blockStack |-> scan.blockStack,
                                 diagnostics |-> scan.diagnostics],
                                scan.lines[scan.lineNum + 1], scan.lineNum)} :
           scan' = [scan EXCEPT !.blockStack = V.blockStack,
                                !.diagnostics = V.diagnostics \o
                                    OperatorCheck(LineCode(scan.lines[scan.lineNum + 1]),
                                                  scan.lineNum) \o
                                    AnonymousReferenceCheck(
                                        LineCode(scan.lines[scan.lineNum + 1]),
                                        scan.lineNum, scan.uri, documentIndex),
                                !.lineNum = @ + 1]
    /\ UNCHANGED << phase, hasConfigurationCapability, globalSettings, pending, documents,
                    documentIndex, includeRefCount, lastPass, published, reply, disk,
                    callStack, indexedUris >>

\* the end of validateDocument: the blocks left open are reported
CheckUnclosed ==
    /\ scan.pc = "blocks"
    /\ scan.lineNum = Len(scan.lines)
    /\ scan' = [scan EXCEPT
                  !.pc = "done",
                  !.diagnostics = UnclosedLoop(scan.blockStack, scan.lines, 1, scan.diagnostics)]
    /\ UNCHANGED << phase, hasConfigurationCapability, globalSettings, pending, documents,
                    documentIndex, includeRefCount, lastPass, published, reply, disk,
                    callStack, indexedUris >>

\* the folding ranges of the document are asked for
FoldingRanges ==
    /\ scan.pc = "done"
    /\ scan' = [scan EXCEPT !.pc = "folded", !.ranges = ComputeFoldingRanges(scan.lines)]
    /\ UNCHANGED << phase, hasConfigurationCapability, globalSettings, pending, documents,
                    documentIndex, includeRefCount, lastPass, published, reply, disk,
                    callStack, indexedUris >>

NextScan ==
    \/ FoldingRanges
    \/ ParseLine
    \/ ParseReturn
    \/ CheckDuplicates
    \/ ValidateLine
    \/ CheckUnclosed

\* the calls are synchronous code: they run on to their end
SpecScan == InitScan /\ [][NextScan]_vars /\ WF_vars(NextScan)

(***************************************************************************)
(* server.ts: connection.onReferences and connection.onRenameRequest.      *)
(* A location is its uri and its range on one line; S holds the maps the   *)
(* handlers read.                                                          *)
(***************************************************************************)
Store ==
    [documents |-> documents, documentIndex |-> documentIndex, disk |-> disk]

\* the text the handlers search for a uri of documentIndex: the open
\* document, else the file; read FALSE when fs.readFileSync throws
DocContent(S, uri) ==
    IF MapHas(S.documents, uri) THEN [read |-> TRUE, lines |-> MapGet(S.documents, uri)]
    ELSE IF FileURLToPath(uri) \in DOMAIN S.disk /\ FileURLToPath(uri) \notin Unreadable
    THEN [read |-> TRUE, lines |-> S.disk[FileURLToPath(uri)]]
    ELSE [read |-> FALSE, lines |-> << >>]

\* the matches of new RegExp(`\\b${escapedName}\\b`, 'g') in text, in their
\* order: match.index of each.  The names of the index are identifiers,
\* which escapeRegex leaves as they are; the pattern has no i flag.
WordMatches(text, name) ==
    SelectSeq([p \in 1..Len(text) |-> p - 1], LAMBDA c :
        /\ LitAt(text, c + 1, name)
        /\ c = 0 \/ ~IsWord(Ch(text, c))
        /\ BoundaryAt(text, c + 1 + Len(name)))

\* the matches of new RegExp(`\\.${escapedName}\\b`, 'g') in text
DotMatches(text, name) ==
    SelectSeq([p \in 1..Len(text) |-> p - 1], LAMBDA c :
        /\ Ch(text, c + 1) = "."
        /\ LitAt(text, c + 2, name)
        /\ BoundaryAt(text, c + 2 + Len(name)))

\* the matches of the loop over patterns: those of the word pattern, then,
\* for a symbol that is not local, those of the macro-call pattern
PatternMatches(code, symbol) ==
    [k \in 1..Len(WordMatches(code, symbol.name)) |->
        [startCol |-> WordMatches(code, symbol.name)[k], matchText |-> symbol.name]]
    \o (IF symbol.isLocal THEN << >>
        ELSE [k \in 1..Len(DotMatches(code, symbol.name)) |->
                 [startCol |-> DotMatches(code, symbol.name)[k],
                  matchText |-> "." \o symbol.name]])

\* the test of a local symbol: the scope path and the local scope of the line
LocalReference(S, symbol, uri, lineNum) ==
    LET lineScope == ScopeAtLineGet(MapGet(S.documentIndex, uri), lineNum)
    IN  /\ lineScope.scopePath = symbol.scopePath
        /\ lineScope.localScope = symbol.localScope

\* the body of the match loop up to the push: the definition itself is
\* skipped, a local symbol asks for its scopes, any other symbol for the
\* resolver to find the definition from the line
ReferenceAccepted(S, symbol, uri, lineNum, match) ==
    /\ ~(uri = symbol.uri /\ lineNum = symbol.line /\ match.startCol = symbol.startChar)
    /\ IF symbol.isLocal THEN LocalReference(S, symbol, uri, lineNum)
       ELSE LET refSymbol == FindSymbolInfo(IF StartsWith(match.matchText, ".")
                                            THEN match.matchText ELSE symbol.name,
                                            uri, lineNum, S.documentIndex)
            IN  /\ refSymbol # NotFound
                /\ refSymbol.uri = symbol.uri
                /\ refSymbol.line = symbol.line

Location(uri, line, startChar, endChar) ==
    [uri |-> uri, line |-> line, startChar |-> startChar, endChar |-> endChar]

\* the locations the match loops of a line reach: actualStartCol skips the
\* dot of a macro call
CodeLocations(S, symbol, uri, lineNum, code) ==
    LET accepted == SelectSeq(PatternMatches(code, symbol), LAMBDA match :
                        ReferenceAccepted(S, symbol, uri, lineNum, match))
        actualStartCol(match) ==
            IF StartsWith(match.matchText, ".") THEN match.startCol + 1 ELSE match.startCol
    IN  [k \in 1..Len(accepted) |->
            Location(uri, lineNum, actualStartCol(accepted[k]),
                     actualStartCol(accepted[k]) + Len(symbol.name))]

RECURSIVE ReferenceLines(_, _, _, _, _)
\* the line loop of onReferences from line lineNum; a line without code is
\* skipped
ReferenceLines(S, symbol, uri, lines, lineNum) ==
    IF lineNum >= Len(lines) THEN << >>
    ELSE (IF Trim(LineCode(lines[lineNum + 1])) = "" THEN << >>
          ELSE CodeLocations(S, symbol, uri, lineNum, LineCode(lines[lineNum + 1])))
         \o ReferenceLines(S, symbol, uri, lines, lineNum + 1)

RECURSIVE ReferenceDocuments(_, _, _)
\* for (const [uri, index] of documentIndex), from entry i
ReferenceDocuments(S, symbol, i) ==
    IF i > Len(S.documentIndex) THEN << >>
    ELSE ReferenceLines(S, symbol, S.documentIndex[i].key,
                        DocContent(S, S.documentIndex[i].key).lines, 0)
         \o ReferenceDocuments(S, symbol, i + 1)

\* connection.onReferences after getWordAtPosition: the locations returned
FindReferences(S, word, uri, line, includeDeclaration) ==
    LET symbol == FindSymbolInfo(word, uri, line, S.documentIndex)
    IN  IF symbol = NotFound THEN << >>
        ELSE (IF includeDeclaration
              THEN << Location(symbol.uri, symbol.line, symbol.startChar, symbol.endChar) >>
              ELSE << >>)
             \o ReferenceDocuments(S, symbol, 1)

\* params.newName
NewName == "renamed"

\* TextEdit.replace(range, newName), and AnnotatedTextEdit.replace with its
\* annotation; annotationId Null for a TextEdit
TextEdit(location, annotationId) ==
    [line |-> location.line, startChar |-> location.startChar,
     endChar |-> location.endChar, newText |-> NewName, annotationId |-> annotationId]

\* the key of addedEdits: `${uri}:${range.start.line}:${range.start.character}`
EditKey(location) == << location.uri, location.line, location.startChar >>

MapGetOrEmpty(m, k) == IF MapHas(m, k) THEN MapGet(m, k) ELSE << >>

NoEdits == [codeEdits |-> << >>, commentEdits |-> << >>, addedEdits |-> {}]

\* addCodeEdit without the test of addedEdits
AddCodeEditAgain(E, location) ==
    [E EXCEPT !.addedEdits = @ \cup {EditKey(location)},
              !.codeEdits = MapSet(@, location.uri,
                                Append(MapGetOrEmpty(@, location.uri), TextEdit(location, Null)))]

\* addCodeEdit(uri, range)
AddCodeEdit(E, location) ==
    IF EditKey(location) \in E.addedEdits THEN E
    ELSE [E EXCEPT !.addedEdits = @ \cup {EditKey(location)},
                   !.codeEdits = MapSet(@, location.uri,
                                     Append(MapGetOrEmpty(@, location.uri),
                                            TextEdit(location, Null)))]

\* addCommentEdit that files the occurrence with the code edits
AddCommentEditAsCode(E, location) ==
    IF EditKey(location) \in E.addedEdits THEN E
    ELSE [E EXCEPT !.addedEdits = @ \cup {EditKey(location)},
                   !.codeEdits = MapSet(@, location.uri,
                                     Append(MapGetOrEmpty(@, location.uri),
                                            TextEdit(location, Null)))]

\* addCommentEdit(uri, range)
AddCommentEdit(E, location) ==
    IF EditKey(location) \in E.addedEdits THEN E
    ELSE [E EXCEPT !.addedEdits = @ \cup {EditKey(location)},
                   !.commentEdits = MapSet(@, location.uri,
                                        Append(MapGetOrEmpty(@, location.uri),
                                               TextEdit(location, "commentRename")))]

RECURSIVE AddCodeEdits(_, _, _)
\* addCodeEdit for the locations of a line, from location k
AddCodeEdits(E, locations, k) ==
    IF k > Len(locations) THEN E
    ELSE Only({AddCodeEdits(E1, locations, k + 1) : E1 \in {AddCodeEdit(E, locations[k])}})

RECURSIVE AddCommentEdits(_, _, _)
\* addCommentEdit for the occurrences of a comment, from location k
AddCommentEdits(E, locations, k) ==
    IF k > Len(locations) THEN E
    ELSE Only({AddCommentEdits(E1, locations, k + 1) :
                 E1 \in {AddCommentEdit(E, locations[k])}})

\* the occurrences of the name in line.substring(commentStart)
CommentLocations(symbol, uri, lineNum, line) ==
    LET commentStart == CommentStartFrom(line, 1, "") - 1
        found == IF commentStart >= 0
                 THEN WordMatches(SubSeq(line, commentStart + 1, Len(line)), symbol.name)
                 ELSE << >>
    IN  [k \in 1..Len(found) |->
            Location(uri, lineNum, commentStart + found[k],
                     commentStart + found[k] + Len(symbol.name))]

\* the body of the line loop of onRenameRequest: the code portion, then the
\* comment portion
RenameLine(E, S, symbol, uri, lineNum, line) ==
    Only({AddCommentEdits(E1, CommentLocations(symbol, uri, lineNum, line), 1) :
            E1 \in {IF Trim(LineCode(line)) # ""
                    THEN AddCodeEdits(E, CodeLocations(S, symbol, uri, lineNum, LineCode(line)), 1)
                    ELSE E}})

RECURSIVE RenameLines(_, _, _, _, _, _)
\* the line loop of onRenameRequest from line lineNum
RenameLines(E, S, symbol, uri, lines, lineNum) ==
    IF lineNum >= Len(lines) THEN E
    ELSE Only({RenameLines(E1, S, symbol, uri, lines, lineNum + 1) :
                 E1 \in {RenameLine(E, S, symbol, uri, lineNum, lines[lineNum + 1])}})

RECURSIVE RenameDocuments(_, _, _, _)
\* for (const [uri, index] of documentIndex), from entry i
RenameDocuments(E, S, symbol, i) ==
    IF i > Len(S.documentIndex) THEN E
    ELSE Only({RenameDocuments(E1, S, symbol, i + 1) :
                 E1 \in {RenameLines(E, S, symbol, S.documentIndex[i].key,
                                     DocContent(S, S.documentIndex[i].key).lines, 0)}})

\* the handler returns null
NullEdit == [kind |-> "null", documents |-> << >>, changeAnnotations |-> << >>]

\* the workspace edit built from the edits: with comment edits the
\* documentChanges of every uri (its code edits, then its annotated edits)
\* and the annotation; without, the changes of the code edits
WorkspaceEdit(E) ==
    IF E.commentEdits # << >>
    THEN LET allUris == E.codeEdits \o SelectSeq(E.commentEdits,
                                           LAMBDA e : ~MapHas(E.codeEdits, e.key))
         IN  [kind |-> "documentChanges",
              documents |-> [k \in 1..Len(allUris) |->
                  [uri |-> allUris[k].key,
                   edits |-> MapGetOrEmpty(E.codeEdits, allUris[k].key)
                                 \o MapGetOrEmpty(E.commentEdits, allUris[k].key)]],
              changeAnnotations |->
                  << [id |-> "commentRename", label |-> "Rename in comments",
                      needsConfirmation |-> TRUE] >>]
    ELSE [kind |-> "changes",
          documents |-> [k \in 1..Len(E.codeEdits) |->
              [uri |-> E.codeEdits[k].key, edits |-> E.codeEdits[k].value]],
          changeAnnotations |-> << >>]

\* connection.onRenameRequest after getWordAtPosition: the edit returned
RenameRequest(S, word, uri, line) ==
    LET symbol == FindSymbolInfo(word, uri, line, S.documentIndex)
    IN  IF symbol = NotFound THEN NullEdit
        ELSE WorkspaceEdit(
                 RenameDocuments(
                     AddCodeEdit(NoEdits, Location(symbol.uri, symbol.line,
                                                   symbol.startChar, symbol.endChar)),
                     S, symbol, 1))

\* /[a-zA-Z0-9_.]/
IsCursorWordChar(c) == IsWord(c) \/ c = "."

RECURSIVE CursorWordStart(_, _)
\* while (start > 0 && /[a-zA-Z0-9_.]/.test(line[start - 1])) start--
CursorWordStart(line, start) ==
    IF start > 0 /\ IsCursorWordChar(Ch(line, start)) THEN CursorWordStart(line, start - 1)
    ELSE start

RECURSIVE CursorWordEnd(_, _)
\* while (end < line.length && /[a-zA-Z0-9_.]/.test(line[end])) end++
CursorWordEnd(line, end) ==
    IF end < Len(line) /\ IsCursorWordChar(Ch(line, end + 1)) THEN CursorWordEnd(line, end + 1)
    ELSE end

\* getWordAtPosition on a line: the word around the character, Null for none
GetWordAtPosition(line, character) ==
    LET word == SubSeq(line, CursorWordStart(line, character) + 1, CursorWordEnd(line, character))
    IN  IF Len(word) > 0 THEN word ELSE Null

\* the words getWordAtPosition returns for the positions of a line
WordsAt(uri, line) ==
    {GetWordAtPosition(MapGet(documents, uri)[line + 1], character) :
        character \in 0..Len(MapGet(documents, uri)[line + 1])} \ {Null}

\* connection.onReferences for the word under the cursor
References(word, uri, line, includeDeclaration) ==
    /\ phase = "running"
    /\ MapHas(documents, uri)
    /\ line < Len(MapGet(documents, uri))
    /\ word \in WordsAt(uri, line)
    /\ Outcome(Maps, NoDiagnostics,
               [word |-> word, uri |-> uri, line |-> line,
                symbol |-> FindSymbolInfo(word, uri, line, documentIndex),
                kind |-> "references", includeDeclaration |-> includeDeclaration,
                locations |-> FindReferences(Store, word, uri, line, includeDeclaration),
                edit |-> NullEdit])
    /\ UNCHANGED << phase, hasConfigurationCapability, globalSettings, pending, documents >>

\* connection.onRenameRequest for the word under the cursor
Rename(word, uri, line) ==
    /\ phase = "running"
    /\ MapHas(documents, uri)
    /\ line < Len(MapGet(documents, uri))
    /\ word \in WordsAt(uri, line)
    /\ Outcome(Maps, NoDiagnostics,
               [word |-> word, uri |-> uri, line |-> line,
                symbol |-> FindSymbolInfo(word, uri, line, documentIndex),
                kind |-> "rename", includeDeclaration |-> FALSE,
                locations |-> << >>,
                edit |-> RenameRequest(Store, word, uri, line)])
    /\ UNCHANGED << phase, hasConfigurationCapability, globalSettings, pending, documents >>

(***************************************************************************)
(* The reference requests: the server runs, documents with references are  *)
(* opened and edited, and find-all-references and rename are asked for the *)
(* words of their lines.                                                   *)
(***************************************************************************)
NextRefs ==
    \/ \E uri \in Uris : \E lines \in RefTextsOf(uri) : DidChangeContent(uri, lines)
    \/ \E word \in RefWords : \E uri \in Uris : \E line \in 0..MaxLine :
           \E includeDeclaration \in BOOLEAN : References(word, uri, line, includeDeclaration)
    \/ \E word \in RefWords : \E uri \in Uris : \E line \in 0..MaxLine : Rename(word, uri, line)

SpecRefs == InitResolve /\ [][NextRefs]_vars

(***************************************************************************)
(* utils.ts: parseLineStructure as a whole.                                *)
(***************************************************************************)
\* parseLineStructure(line): the code portion and the 0-based position of
\* the ";" of the comment, -1 for none
ParseLineStructure(line) ==
    [code |-> LineCode(line), commentStart |-> CommentStartFrom(line, 1, "") - 1]

(***************************************************************************)
(* utils.ts: parseNumericValue and formatNumericValue.  A number is its    *)
(* sign and the binary digits of its magnitude, most significant first and *)
(* without leading zeros (none for zero): a Number holds an integer with   *)
(* 53 significant binary digits, so that parseInt rounds a longer one to   *)
(* the nearest such integer, to the even one of two.                       *)
(***************************************************************************)
SignificandBits == 53

Number(negative, bits) == [isNull |-> FALSE, negative |-> negative, bits |-> bits]

\* return null
NullNumber == [isNull |-> TRUE, negative |-> FALSE, bits |-> << >>]

Zeros(n) == [i \in 1..n |-> 0]

\* a sequence of digits without its leading zeros
StripZeros(digits) ==
    IF \A i \in DOMAIN digits : digits[i] = 0 THEN << >>
    ELSE SubSeq(digits, CHOOSE i \in DOMAIN digits :
                            digits[i] # 0 /\ \A j \in 1..(i - 1) : digits[j] = 0,
                Len(digits))

\* the value of a digit of parseInt and the digit of toString for a value
DigitChars == "0123456789abcdef"

DigitValue(c) == (CHOOSE p \in 1..16 : Ch(DigitChars, p) = ToLowerCh(c)) - 1

\* the binary digits of a sequence of hexadecimal digit values
HexValuesToBits(values) ==
    StripZeros([k \in 1..(4 * Len(values)) |->
        (values[((k - 1) \div 4) + 1] \div (2 ^ (3 - ((k - 1) % 4)))) % 2])

\* the hexadecimal digit values of a sequence of binary digits
HexValues(bits) ==
    LET padded == Zeros((4 - (Len(bits) % 4)) % 4) \o bits
    IN  [k \in 1..(Len(padded) \div 4) |->
            8 * padded[4 * k - 3] + 4 * padded[4 * k - 2] + 2 * padded[4 * k - 1] + padded[4 * k]]

RECURSIVE RemOf(_, _, _, _)
\* the first i digits of a number written in the base from, modulo to
RemOf(values, i, from, to) ==
    IF i = 0 THEN 0 ELSE (from * RemOf(values, i - 1, from, to) + values[i]) % to

\* a number written in the base from, divided by to
DivBy(values, from, to) ==
    StripZeros([i \in DOMAIN values |->
        (from * RemOf(values, i - 1, from, to) + values[i]) \div to])

RECURSIVE Convert(_, _, _)
\* the digits in the base to of a number written in the base from without
\* leading zeros, none for zero
Convert(values, from, to) ==
    IF Len(values) = 0 THEN << >>
    ELSE Only({Convert(q, from, to) : q \in {DivBy(values, from, to)}})
             \o << RemOf(values, Len(values), from, to) >>

\* the magnitude of a sequence of hexadecimal digits
HexToBits(digits) == HexValuesToBits([k \in 1..Len(digits) |-> DigitValue(Ch(digits, k))])

\* the magnitude of a sequence of binary digits
BinToBits(digits) == StripZeros([k \in 1..Len(digits) |-> DigitValue(Ch(digits, k))])

\* the magnitude of a sequence of decimal digits
DecToBits(digits) ==
    HexValuesToBits(Convert(StripZeros([k \in 1..Len(digits) |-> DigitValue(Ch(digits, k))]),
                            10, 16))

\* a sequence of binary digits plus one
Increment(bits) ==
    IF \A i \in DOMAIN bits : bits[i] = 1 THEN << 1 >> \o Zeros(Len(bits))
    ELSE LET p == CHOOSE i \in DOMAIN bits : bits[i] = 0 /\ \A j \in (i + 1)..Len(bits) : bits[j] = 1
         IN  SubSeq(bits, 1, p - 1) \o << 1 >> \o Zeros(Len(bits) - p)

\* the Number value of a magnitude: the nearest integer with 53 significant
\* digits, the even one when two are as near
RoundToNumber(bits) ==
    IF Len(bits) <= SignificandBits THEN bits
    ELSE LET head == SubSeq(bits, 1, SignificandBits)
             rest == SubSeq(bits, SignificandBits + 1, Len(bits))
             up   == /\ rest[1] = 1
                     /\ \/ \E i \in 2..Len(rest) : rest[i] = 1
                        \/ head[SignificandBits] = 1
         IN  (IF up THEN Increment(head) ELSE head) \o Zeros(Len(rest))

\* parseInt(digits, radix) for digits of the radix
ParseInt(digits, radix) ==
    RoundToNumber(IF radix = 16 THEN HexToBits(digits)
                  ELSE IF radix = 2 THEN BinToBits(digits)
                  ELSE DecToBits(digits))

\* /^[class]+$/ on the text from position i
AllOf(text, i, class) == i <= Len(text) /\ \A k \in i..Len(text) : Ch(text, k) \in class

\* parseNumericValue(value)
ParseNumericValue(value) ==
    LET trimmed == Trim(value)
    IN  IF StartsWith(trimmed, "$") /\ AllOf(trimmed, 2, HexDigits)
        THEN Number(FALSE, ParseInt(SubSeq(trimmed, 2, Len(trimmed)), 16))
        ELSE IF LitAtCI(trimmed, 1, "0x") /\ AllOf(trimmed, 3, HexDigits)
        THEN Number(FALSE, ParseInt(SubSeq(trimmed, 3, Len(trimmed)), 16))
        ELSE IF StartsWith(trimmed, "%") /\ AllOf(trimmed, 2, BinDigits)
        THEN Number(FALSE, ParseInt(SubSeq(trimmed, 2, Len(trimmed)), 2))
        ELSE IF LitAtCI(trimmed, 1, "0b") /\ AllOf(trimmed, 3, BinDigits)
        THEN Number(FALSE, ParseInt(SubSeq(trimmed, 3, Len(trimmed)), 2))
        ELSE IF StartsWith(trimmed, "-") /\ AllOf(trimmed, 2, Digits)
        THEN Number(TRUE, ParseInt(SubSeq(trimmed, 2, Len(trimmed)), 10))
        ELSE IF AllOf(trimmed, 1, Digits)
        THEN Number(FALSE, ParseInt(trimmed, 10))
        ELSE NullNumber

RECURSIVE DigitString(_)
\* the digits of a sequence of digit values, half by half
DigitString(values) ==
    IF Len(values) = 0 THEN ""
    ELSE IF Len(values) = 1 THEN Ch(DigitChars, values[1] + 1)
    ELSE DigitString(SubSeq(values, 1, Len(values) \div 2))
             \o DigitString(SubSeq(values, (Len(values) \div 2) + 1, Len(values)))

\* Math.abs(num).toString(radix); the magnitudes here are below 1e21, from
\* where toString(10) writes an exponent
MagnitudeToString(bits, radix) ==
    IF Len(bits) = 0 THEN "0"
    ELSE DigitString(IF radix = 2 THEN bits
                     ELSE IF radix = 16 THEN HexValues(bits)
                     ELSE Convert(HexValues(bits), 16, 10))

\* String.prototype.toUpperCase for one character
ToUpperCh(c) ==
    IF \E u \in DOMAIN LowerMap : LowerMap[u] = c
    THEN CHOOSE u \in DOMAIN LowerMap : LowerMap[u] = c
    ELSE c

RECURSIVE ToUpperCase(_)
\* String.prototype.toUpperCase, half by half
ToUpperCase(s) ==
    IF Len(s) = 0 THEN ""
    ELSE IF Len(s) = 1 THEN ToUpperCh(s)
    ELSE ToUpperCase(SubSeq(s, 1, Len(s) \div 2))
             \o ToUpperCase(SubSeq(s, (Len(s) \div 2) + 1, Len(s)))

\* num >= 0 is true of -0 as well
IsNegative(num) == num.negative /\ Len(num.bits) > 0

\* formatNumericValue(num): the three parts and the string
FormatNumericValue(num) ==
    LET sign == IF IsNegative(num) THEN "-" ELSE ""
        bin  == sign \o "%" \o MagnitudeToString(num.bits, 2)
        dec  == sign \o MagnitudeToString(num.bits, 10)
        hex  == sign \o "$" \o ToUpperCase(MagnitudeToString(num.bits, 16))
    IN  bin \o ", " \o dec \o ", " \o hex

\* extractComment(line): the text after the first ";" of the line, without
\* the white space at its end and without one leading space; Null when the
\* line has no ";" or nothing is left
ExtractComment(line) ==
    LET idx     == IndexOf(line, ";")
        comment == TrimEnd(SubSeq(line, idx + 2, Len(line)))
        text    == IF StartsWith(comment, " ") THEN SubSeq(comment, 2, Len(comment))
                   ELSE comment
    IN  IF idx >= 0 /\ Len(text) > 0 THEN text ELSE Null

\* /^\s*;/.test(line)
CommentOnlyTest(line) ==
    SpaceEnd(line, 1) <= Len(line) /\ Ch(line, SpaceEnd(line, 1)) = ";"

RECURSIVE CommentRunAbove(_, _)
\* the loop over the lines above: the 0-based numbers of the comment-only
\* lines from line i upwards, in the order of the document
CommentRunAbove(lines, i) ==
    IF i >= 0 /\ CommentOnlyTest(lines[i + 1])
    THEN CommentRunAbove(lines, i - 1) \o << i >>
    ELSE << >>

RECURSIVE CommentRunBelow(_, _)
\* the loop over the lines below
CommentRunBelow(lines, i) ==
    IF i < Len(lines) /\ CommentOnlyTest(lines[i + 1])
    THEN << i >> \o CommentRunBelow(lines, i + 1)
    ELSE << >>

RECURSIVE JoinLines(_)
\* commentLines.join('  \n')
JoinLines(commentLines) ==
    IF Len(commentLines) = 1 THEN commentLines[1]
    ELSE commentLines[1] \o "  \n" \o JoinLines(Tail(commentLines))

\* the comments extractComment finds on the lines of a run
CommentsOf(lines, run) ==
    SelectSeq([k \in 1..Len(run) |-> ExtractComment(lines[run[k] + 1])],
              LAMBDA comment : comment # Null)

\* getBlockComment(lines, lineNum): the comment of the line itself, else of
\* the comment lines above it, else of the comment lines below it; Null
\* when there is none
GetBlockComment(lines, lineNum) ==
    LET sameLine == ExtractComment(lines[lineNum + 1])
        above    == CommentsOf(lines, CommentRunAbove(lines, lineNum - 1))
        below    == CommentsOf(lines, CommentRunBelow(lines, lineNum + 1))
    IN  IF sameLine # Null THEN sameLine
        ELSE IF above # << >> THEN JoinLines(above)
        ELSE IF below # << >> THEN JoinLines(below)
        ELSE Null

(***************************************************************************)
(* The functions of utils.ts on their own: a line or a numeric text is     *)
(* given, and the function is applied to it.                               *)
(***************************************************************************)
MaxLineLen == 6

LineChars == {"a", ";", "\"", "'"}

RECURSIVE StringsOver(_, _)
\* the strings of n characters of an alphabet
StringsOver(chars, n) ==
    IF n = 0 THEN {""} ELSE {c \o s : c \in chars, s \in StringsOver(chars, n - 1)}

\* the lines parseLineStructure is given
UtilLines ==
    UNION {StringsOver(LineChars, n) : n \in 0..MaxLineLen}
        \cup {"a ; c ", "';' ;  d", " ; ", "a .text \"x;y\" ; z"}

MaxDigits == 3

NumericPrefixes == {"", "-", "$", "0x", "0X", "%", "0b", "-$"}

NumericDigits == {"0", "1", "9", "a", "F"}

\* numeric texts around the largest integer a Number holds exactly, 2^53
LongTexts ==
    {"9007199254740992", "9007199254740993", "-9007199254740995", "$1fffffffffffff",
     "$20000000000001", "0x20000000000003", "0b100000000000000000000000000000000000000000000000000001",
     "%100000000000000000000000000000000000000000000000000011"}

\* the lines getBlockComment finds above and below the line
BlockSurroundings ==
    { [above |-> << >>, below |-> << >>],
      [above |-> << "a", "; u", " ;v " >>, below |-> << ";w" >>],
      [above |-> << ";" >>, below |-> << "; w", ";", ";x", "a", ";y" >>] }

\* the texts parseNumericValue is given
NumericTexts ==
    {p \o d : p \in NumericPrefixes, d \in UNION {StringsOver(NumericDigits, n) : n \in 0..MaxDigits}}
    \cup {"  $FF  ", " 10", "hello", "- 1", "0B11"} \cup LongTexts

InitUtils ==
    /\ phase = "running"
    /\ hasConfigurationCapability = TRUE
    /\ globalSettings = [caseSensitive |-> FALSE]
    /\ pending = << >>
    /\ documents = << >>
    /\ documentIndex = << >>
    /\ includeRefCount = << >>
    /\ lastPass = << >>
    /\ published = NoDiagnostics
    /\ reply \in {[kind |-> "line", input |-> line] : line \in UtilLines}
                 \cup {[kind |-> "value", input |-> value] : value \in NumericTexts}
    /\ disk = DiskText
    /\ callStack = << >>
    /\ indexedUris = {}
    /\ scan = NoScan

\* parseLineStructure is applied to the line
ApplyParseLineStructure ==
    /\ reply.kind = "line"
    /\ reply' = [kind |-> "parseLineStructure", input |-> reply.input,
                 structure |-> ParseLineStructure(reply.input)]
    /\ UNCHANGED << phase, hasConfigurationCapability, globalSettings, pending, documents,
                    documentIndex, includeRefCount, lastPass, published, disk, callStack,
                    indexedUris, scan >>

\* extractComment is applied to the line
ApplyExtractComment ==
    /\ reply.kind = "line"
    /\ reply' = [kind |-> "extractComment", input |-> reply.input,
                 comment |-> ExtractComment(reply.input)]
    /\ UNCHANGED << phase, hasConfigurationCapability, globalSettings, pending, documents,
                    documentIndex, includeRefCount, lastPass, published, disk, callStack,
                    indexedUris, scan >>

\* getBlockComment is applied to the line, alone or next to comment lines
ApplyGetBlockComment ==
    /\ reply.kind = "line"
    /\ \E around \in BlockSurroundings :
           reply' = [kind |-> "getBlockComment", input |-> reply.input,
                     lines |-> around.above \o << reply.input >> \o around.below,
                     lineNum |-> Len(around.above),
                     comment |-> GetBlockComment(
                                     around.above \o << reply.input >> \o around.below,
                                     Len(around.above))]
    /\ UNCHANGED << phase, hasConfigurationCapability, globalSettings, pending, documents,
                    documentIndex, includeRefCount, lastPass, published, disk, callStack,
                    indexedUris, scan >>

\* parseNumericValue is applied to the text
ApplyParseNumericValue ==
    /\ reply.kind = "value"
    /\ reply' = [kind |-> "parseNumericValue", input |-> reply.input,
                 num |-> ParseNumericValue(reply.input)]
    /\ UNCHANGED << phase, hasConfigurationCapability, globalSettings, pending, documents,
                    documentIndex, includeRefCount, lastPass, published, disk, callStack,
                    indexedUris, scan >>

\* formatNumericValue is applied to the number parseNumericValue returned
ApplyFormatNumericValue ==
    /\ reply.kind = "parseNumericValue"
    /\ ~reply.num.isNull
    /\ reply' = [kind |-> "formatNumericValue", input |-> reply.input, num |-> reply.num,
                 formatted |-> FormatNumericValue(reply.num)]
    /\ UNCHANGED << phase, hasConfigurationCapability, globalSettings, pending, documents,
                    documentIndex, includeRefCount, lastPass, published, disk, callStack,
                    indexedUris, scan >>

NextUtils ==
    \/ ApplyParseLineStructure
    \/ ApplyExtractComment
    \/ ApplyGetBlockComment
    \/ ApplyParseNumericValue
    \/ ApplyFormatNumericValue

SpecUtils == InitUtils /\ [][NextUtils]_vars

(***************************************************************************)
(* The include graph as the files state it: what the claims mean by        *)
(* "includes" and "reachable".                                             *)
(***************************************************************************)
OpenUris == MapKeys(documents)

TextOf(uri) == MapGet(documents, uri)

Readable(uri) == FileURLToPath(uri) \in DOMAIN disk \ Unreadable

\* the files the .include lines of a text link
DirectIncludes(uri, lines) ==
    LET includes == ParsedIndex(uri, lines, FALSE).includes
    IN  {includes[i] : i \in 1..Len(includes)}

\* the files the saved text of a file links
FileIncludes(uri) ==
    IF Readable(uri) THEN DirectIncludes(uri, disk[FileURLToPath(uri)]) ELSE {}

RECURSIVE IncludeClosure(_, _)
\* the files reached from those of S through the saved texts; the root is
\* not read from disk
IncludeClosure(S, root) ==
    LET next == S \cup UNION {FileIncludes(f) : f \in S \ {root}}
    IN  IF next = S THEN S ELSE IncludeClosure(next, root)

\* the files a root with this text includes, directly or through others
IncludedBy(root, lines) == IncludeClosure(DirectIncludes(root, lines), root)

\* the words of the labels of the files and buffers of the index manager
ManagerWords == {"Amain", "Bval", "Cval", "Xlab"}

\* some request on an open document resolves to a definition owned by owner
ResolvesInto(owner, docs, index) ==
    \E word \in ManagerWords : \E i \in 1..Len(docs) :
        \E line \in 0..(Len(docs[i].value) - 1) :
            FindSymbolInfo(word, docs[i].key, line, index).uri = owner

(***************************************************************************)
(* The claims                                                              *)
(***************************************************************************)

\* C1: the index of every open document is the one built from its latest
\* editor text (under one of the two modes): no handler replaces it with the
\* index of an older or on-disk text.
C1_OpenIndexFromEditorText ==
    \A u \in OpenUris :
        MapHas(documentIndex, u) =>
            \E cs \in BOOLEAN : MapGet(documentIndex, u) = ParsedIndex(u, TextOf(u), cs)

\* C2: after every handler, every open document has an entry in the index map.
C2_OpenDocumentIndexed ==
    \A u \in OpenUris : MapHas(documentIndex, u)

\* C3: while a root is open, every readable file it reaches through .include
\* lines has an entry in the index map.
C3_IncludedFilesIndexed ==
    \A r \in OpenUris : \A f \in IncludedBy(r, TextOf(r)) :
        Readable(f) => MapHas(documentIndex, f)

\* C4: when an edit of an open root takes a file out of what the root
\* includes, then after the handler the file has no entry in the map and no
\* request resolves into it, unless another open root still includes it, and
\* then the entry it had is kept as it was.
C4_RemovedIncludeStep ==
    \A u \in OpenUris :
        (~published'.cleared /\ published'.uri = u) =>
            \A f \in (IncludedBy(u, TextOf(u)) \ IncludedBy(u, published'.lines)) \ {u} :
                IF \E r \in MapKeys(documents') \ {u} : f \in IncludedBy(r, MapGet(documents', r))
                THEN MapHas(documentIndex, f) =>
                         /\ MapHas(documentIndex', f)
                         /\ MapGet(documentIndex', f) = MapGet(documentIndex, f)
                ELSE /\ ~MapHas(documentIndex', f)
                     /\ ~ResolvesInto(f, documents', documentIndex')

C4_RemovedIncludeDropped == [][C4_RemovedIncludeStep]_vars

\* C4 witness: a.asm was edited to a text without includes while b.asm, open
\* with its saved text, still includes c.asm, whose index is in the map
C4_Witness ==
    /\ published = Validated("file:///a.asm", << "Xlab" >>, documentIndex,
                             globalSettings.caseSensitive)
    /\ MapHas(documents, "file:///b.asm")
    /\ TextOf("file:///b.asm") = DiskText["/b.asm"]
    /\ MapHas(documentIndex, "file:///c.asm")
    /\ includeRefCount["file:///c.asm"] = {"file:///b.asm"}

\* C5: every index in the map is built under the mode in force.
C5_IndexesUnderCurrentMode ==
    \A i \in 1..Len(documentIndex) :
        LET uri == documentIndex[i].key
        IN  \E lines \in IF uri \in Uris THEN EditorTexts(uri)
                                          ELSE {disk[FileURLToPath(uri)]} :
                documentIndex[i].value = ParsedIndex(uri, lines, globalSettings.caseSensitive)

\* C6: the diagnostics a content change sends are computed from the map the
\* handler leaves, under the mode in force, after the handler has parsed the
\* changed document from its new text and every readable file it includes
\* from disk, and stored their indexes.
C6_DiagnosticsAfterIndexing ==
    ~published.cleared =>
        /\ published.documentIndex = documentIndex
        /\ published.caseSensitive = globalSettings.caseSensitive
        /\ MapHas(documents, published.uri)
        /\ published.lines = TextOf(published.uri)
        /\ MapHas(published.documentIndex, published.uri)
        /\ MapGet(published.documentIndex, published.uri) =
               ParsedIndex(published.uri, published.lines, published.caseSensitive)
        /\ {lastPass[i] : i \in 1..Len(lastPass)} =
               {published.uri} \cup {f \in IncludedBy(published.uri, published.lines) :
                                        Readable(f)}
        /\ \A f \in IncludedBy(published.uri, published.lines) \ {published.uri} :
               Readable(f) =>
                   /\ MapHas(published.documentIndex, f)
                   /\ MapGet(published.documentIndex, f) =
                          ParsedIndex(f, disk[FileURLToPath(f)], published.caseSensitive)

\* C6 witness: diagnostics are sent for a document that includes two
\* readable files
C6_Witness ==
    /\ ~published.cleared
    /\ Cardinality({f \in IncludedBy(published.uri, published.lines) \ {published.uri} :
                        Readable(f)}) >= 2

\* C7: when a document that no other open root includes is closed, then after
\* the handler the map has no entry for it nor for any file that only it
\* included, and no request resolves into any of them.
C7_CloseStep ==
    \A u \in OpenUris :
        (u \notin MapKeys(documents') /\
         \A r \in MapKeys(documents') : u \notin IncludedBy(r, MapGet(documents', r))) =>
            \A f \in {u} \cup {g \in IncludedBy(u, TextOf(u)) :
                          \A r \in MapKeys(documents') :
                              g \notin IncludedBy(r, MapGet(documents', r))} :
                /\ ~MapHas(documentIndex', f)
                /\ ~ResolvesInto(f, documents', documentIndex')

C7_ClosedDocumentDropped == [][C7_CloseStep]_vars

\* C7 witness: a.asm has been closed while b.asm is open with its saved
\* text, which includes c.asm; the map holds the indexes of these two alone
C7_Witness ==
    /\ published = Cleared("file:///a.asm")
    /\ documents = << [key |-> "file:///b.asm", value |-> DiskText["/b.asm"]] >>
    /\ MapKeys(documentIndex) = {"file:///b.asm", "file:///c.asm"}
    /\ DOMAIN includeRefCount = {"file:///b.asm", "file:///c.asm"}

\* C8: a pass of indexDocument over any include graph, self-includes and
\* cycles among them, parses no file twice and comes to its end.
C8_PassTerminatesParsingOnce ==
    /\ [](\A i, j \in 1..Len(lastPass) : lastPass[i] = lastPass[j] => i = j)
    /\ <>(callStack = << >>)

\* C8 witness: the pass is over for a root that includes itself and, through
\* b.asm and c.asm that include each other, is reached again; three files
\* were parsed
C8_Witness ==
    /\ callStack = << >>
    /\ RootUri \in DirectIncludes(RootUri, disk["/a.asm"])
    /\ "file:///c.asm" \in FileIncludes("file:///b.asm")
    /\ "file:///b.asm" \in FileIncludes("file:///c.asm")
    /\ RootUri \in FileIncludes("file:///c.asm")
    /\ Len(lastPass) = 3

\* the scope the index records for the line of the request answered last
ReplyScope == ScopeAtLineGet(MapGet(documentIndex, reply.uri), reply.line)

\* C9: a request for a word that begins with "_" is answered with not-found
\* or with a local-flagged definition of the document of the request whose
\* scope path and local scope are those of the line of the request.
C9_LocalResolvesInPlace ==
    (reply.word # Null /\ StartsWith(reply.word, "_")) =>
        \/ reply.symbol = NotFound
        \/ /\ MapHas(documentIndex, reply.uri)
           /\ \E i \in 1..Len(MapGet(documentIndex, reply.uri).labels) :
                  MapGet(documentIndex, reply.uri).labels[i] = reply.symbol
           /\ reply.symbol.uri = reply.uri
           /\ reply.symbol.isLocal
           /\ reply.symbol.scopePath = ReplyScope.scopePath
           /\ reply.symbol.localScope = ReplyScope.localScope

\* C9 witness: "_x" asked under the code label Two resolves to the "_x" of
\* that label, while the same document has another "_x" under Top and the
\* other open document has one too
C9_Witness ==
    /\ reply.word = "_x"
    /\ reply.symbol # NotFound
    /\ reply.symbol.localScope = "two"
    /\ reply.symbol.scopePath = Null
    /\ \E i \in 1..Len(documentIndex) :
           /\ documentIndex[i].key # reply.uri
           /\ \E k \in 1..Len(documentIndex[i].value.labels) :
                  documentIndex[i].value.labels[k].name = "_x"

\* a plain word: a name that is not local and not dotted
PlainWord(word) == word # Null /\ IsAlpha(Ch(word, 1)) /\ ~IncludesFrom(word, ".", 1)

\* the label defines the name the word spells, under the mode
DefinesName(label, word, caseSensitive) ==
    IF caseSensitive THEN label.originalName = word
    ELSE ToLowerCase(label.originalName) = ToLowerCase(word)

\* a scope path, its dot-prefixes, and the global scope
ScopeAndAncestors(path) ==
    IF path = Null THEN {Null}
    ELSE {path, Null} \cup {SubSeq(path, 1, k - 1) : k \in {i \in 1..Len(path) : Ch(path, i) = "."}}

\* the non-local definitions of the word of the request answered last at
\* the scope of its line or an ancestor of it
ReplyCandidates ==
    LET labels == AllLabels(documentIndex)
    IN  {labels[i] : i \in {k \in 1..Len(labels) :
            /\ DefinesName(labels[k], reply.word, globalSettings.caseSensitive)
            /\ ~labels[k].isLocal
            /\ labels[k].scopePath \in ScopeAndAncestors(ReplyScope.scopePath)}}

\* C10: a request for a plain word is answered with a non-local definition
\* of that name at the scope of the line or an ancestor of it, and with
\* not-found exactly when there is none.
C10_PlainResolvesUpward ==
    PlainWord(reply.word) =>
        IF ReplyCandidates = {} THEN reply.symbol = NotFound
        ELSE reply.symbol \in ReplyCandidates

(***************************************************************************)
(* The resolver: dotted names, the two case modes, anonymous references.   *)
(***************************************************************************)
\* a dotted word: prefix.leaf
DottedWord(word) ==
    word # Null /\ IsAlpha(Ch(word, 1)) /\ IncludesFrom(word, ".", 1)

DottedPrefix(word) == SubSeq(word, 1, LastIndexOf(word, ".", Len(word)) - 1)

DottedLeaf(word) == SubSeq(word, LastIndexOf(word, ".", Len(word)) + 1, Len(word))

\* the scope path is the prefix or ends with "." and the prefix; the index
\* holds scope paths normalized under the mode
ScopeNamedBy(scopePath, prefix, caseSensitive) ==
    LET p == NormalizeName(prefix, caseSensitive)
    IN  scopePath # Null /\ (scopePath = p \/ EndsWith(scopePath, "." \o p))

\* the definitions, in any indexed document, of the leaf of the word of the
\* request answered last under a scope its prefix names
DottedCandidates ==
    LET labels == AllLabels(documentIndex)
    IN  {labels[i] : i \in {k \in 1..Len(labels) :
            /\ DefinesName(labels[k], DottedLeaf(reply.word), globalSettings.caseSensitive)
            /\ ScopeNamedBy(labels[k].scopePath, DottedPrefix(reply.word),
                            globalSettings.caseSensitive)}}

\* C11: a request for a word prefix.leaf is answered with a definition named
\* leaf whose scope path is prefix or ends with ".prefix", whatever the scope
\* of the line of the request, and with not-found exactly when no indexed
\* document holds one.
C11_DottedResolvesByScopeTail ==
    DottedWord(reply.word) =>
        IF DottedCandidates = {} THEN reply.symbol = NotFound
        ELSE reply.symbol \in DottedCandidates

\* the text of the definition site of a symbol: the characters of its range
SpellingAtSite(symbol) ==
    SubSeq(MapGet(documents, symbol.uri)[symbol.line + 1],
           symbol.startChar + 1, symbol.endChar)

\* C12: in case-insensitive mode every letter-case variant of the word of a
\* request resolves, from the line of the request, to the same definition,
\* and the originalName of that definition is the spelling at its
\* definition site.
C12_CaseVariantsAgree ==
    (~globalSettings.caseSensitive /\ PlainWord(reply.word)) =>
        /\ \A word \in Words :
               ToLowerCase(word) = ToLowerCase(reply.word) =>
                   FindSymbolInfo(word, reply.uri, reply.line, documentIndex) = reply.symbol
        /\ reply.symbol # NotFound =>
               /\ ToLowerCase(reply.symbol.originalName) = ToLowerCase(reply.word)
               /\ reply.symbol.originalName = SpellingAtSite(reply.symbol)
        /\ ReplyCandidates # {} => reply.symbol # NotFound

\* C12 witness: in case-insensitive mode the word "LAB" resolves to a
\* definition the document spells "Lab"
C12_Witness ==
    /\ ~globalSettings.caseSensitive
    /\ reply.word = "LAB"
    /\ reply.symbol # NotFound
    /\ reply.symbol.originalName = "Lab"
    /\ SpellingAtSite(reply.symbol) = "Lab"

\* the non-local definitions spelled as the word of the request answered
\* last, at the very scope of its line
ExactSpellingsInScope ==
    LET labels == AllLabels(documentIndex)
    IN  {labels[i] : i \in {k \in 1..Len(labels) :
            /\ labels[k].originalName = reply.word
            /\ ~labels[k].isLocal
            /\ labels[k].scopePath = ReplyScope.scopePath}}

\* C13: in case-sensitive mode a request is answered with a definition only
\* when the definition is spelled exactly as the word, and a word some
\* definition of the scope of the line spells exactly resolves to such a
\* definition, whatever other letter cases of the name the scope defines.
C13_CaseSensitiveExact ==
    (globalSettings.caseSensitive /\ PlainWord(reply.word)) =>
        /\ reply.symbol # NotFound => reply.symbol.originalName = reply.word
        /\ ExactSpellingsInScope # {} => reply.symbol \in ExactSpellingsInScope

\* an anonymous reference: a run of "+" or of "-"
AnonymousWord(word) == word # Null /\ Ch(word, 1) \in {"+", "-"}

\* the anonymous labels line k of the document of the request answered last
\* defines in the direction of the request, under the scope path and the
\* local scope of the line of the request: the length of its run, or 0
RunAt(k) ==
    LET m == AnonMatch(MapGet(documents, reply.uri)[k + 1])
    IN  IF /\ m.symbols # Null
           /\ AllSameSymbol(m.symbols)
           /\ Ch(m.symbols, 1) = Ch(reply.word, 1)
           /\ ScopeAtLineGet(MapGet(documentIndex, reply.uri), k) = ReplyScope
        THEN Len(m.symbols) ELSE 0

RECURSIVE RunsBetween(_, _)
\* the anonymous labels of lines a..b that count for the request
RunsBetween(a, b) == IF a > b THEN 0 ELSE RunAt(a) + RunsBetween(a + 1, b)

\* the last line of the document of the request
ReplyLastLine == Len(MapGet(documents, reply.uri)) - 1

Segments(scopePath) ==
    IF scopePath = Null THEN 0
    ELSE 1 + Cardinality({i \in 1..Len(scopePath) : Ch(scopePath, i) = "."})

\* the named frames open on the scope stack
NamedFrames(scopeStack) ==
    Cardinality({i \in 1..Len(scopeStack) : scopeStack[i].name # Null})

\* C15: while parseDocument scans, scopeAtLine has one entry for each line
\* scanned so far, blank, comment, opener and closer lines included, and the
\* scope path of the entry of the line just scanned has as many segments as
\* the scope stack has named frames; the stored index has one entry for
\* each line of the document.
C15_ScopeAtLineTracksStack ==
    /\ scan.pc = "parse" =>
           /\ Len(scan.P.scopeAtLine) = scan.lineNum
           /\ scan.lineNum > 0 =>
                  Segments(scan.P.scopeAtLine[scan.lineNum].scopePath)
                      = NamedFrames(scan.P.scopeStack)
    /\ scan.pc \in {"validate", "blocks", "done"} =>
           Len(MapGet(documentIndex, scan.uri).scopeAtLine) = Len(scan.lines)

\* C15 witness: after a comment, a blank line, a named scope, an anonymous
\* scope and a second named scope the entry of the line reads "s.t" and the
\* stack holds three frames
C15_Witness ==
    /\ scan.pc = "parse"
    /\ scan.lineNum = 5
    /\ scan.lines[3] = "s .proc ; c"
    /\ scan.P.scopeAtLine[5].scopePath = "s.t"
    /\ Len(scan.P.scopeStack) = 3

\* C16: for every scope-creating directive and each of its closers, the
\* closer line pops the frame: the closer line and the line after it are
\* recorded with the scope path in force before the opener.
C16_EveryCloserPops ==
    (scan.pc = "validate" /\ scan.lines \in CloserTexts) =>
        LET scopeAtLine == MapGet(documentIndex, scan.uri).scopeAtLine
        IN  /\ scopeAtLine[3].scopePath = "s"
            /\ scopeAtLine[4].scopePath = scopeAtLine[1].scopePath
            /\ scopeAtLine[5].scopePath = scopeAtLine[1].scopePath

\* the unclosed-block errors and the unmatched-closer errors, by their messages
IsUnclosed(d) == d.severity = "Error" /\ LitAt(d.message, 1, "Unclosed '")

IsUnmatched(d) ==
    d.severity = "Error" /\ \E p \in 1..Len(d.message) : LitAt(d.message, p, "' without matching ")

BlockRole(line) ==
    CASE line \in {"s .proc", "global .proc"} -> [role |-> "open", family |-> "proc"]
      [] line \in {" .pend", " .endproc"}      -> [role |-> "close", family |-> "proc"]
      [] line = " .for"                           -> [role |-> "open", family |-> "loop"]
      [] line = " .next"                          -> [role |-> "close", family |-> "loop"]
      [] line = " .logical"                       -> [role |-> "open", family |-> "logical"]
      [] OTHER                                    -> [role |-> "none", family |-> "none"]

RECURSIVE LastOfFamily(_, _, _)
\* the last opener of the family among the open ones, from index i
\* downwards; 0 if none
LastOfFamily(open, family, i) ==
    IF i < 1 THEN 0
    ELSE IF open[i].family = family THEN i
    ELSE LastOfFamily(open, family, i - 1)

RECURSIVE Pairing(_, _, _)
\* the pairing of the openers and closers of a text of ScanLines from line k
\* (0-based): R = [open |-> the openers not closed so far, unmatched |-> the
\* lines of the closers that closed nothing]
Pairing(lines, k, R) ==
    IF k >= Len(lines) THEN R
    ELSE LET b == BlockRole(lines[k + 1])
             i == LastOfFamily(R.open, b.family, Len(R.open))
         IN  IF b.role = "open"
             THEN Pairing(lines, k + 1,
                          [R EXCEPT !.open = Append(@, [family |-> b.family, line |-> k])])
             ELSE IF b.role = "close" /\ i > 0
             THEN Pairing(lines, k + 1, [R EXCEPT !.open = Splice(@, i)])
             ELSE IF b.role = "close"
             THEN Pairing(lines, k + 1, [R EXCEPT !.unmatched = @ \cup {k}])
             ELSE Pairing(lines, k + 1, R)

\* the lines of the openers of the text no closer closes, .logical left out
UnclosedLines(lines) ==
    LET R == Pairing(lines, 0, [open |-> << >>, unmatched |-> {}])
    IN  {R.open[i].line : i \in {j \in 1..Len(R.open) : R.open[j].family # "logical"}}

CloserOn(line) == Trim(LineCode(line))

\* the opener accepts the closer
Accepts(open, close) == SeqIncludes(ClosersOf(open), close)

\* the step of the line loop for a line that holds a closer no entry of the
\* block stack accepts
C19_UnmatchedStep ==
    (/\ scan.pc = "blocks"
     /\ scan.lineNum < Len(scan.lines)
     /\ scan'.lineNum = scan.lineNum + 1
     /\ \E p \in BlockPairs : p.close = CloserOn(scan.lines[scan.lineNum + 1])
     /\ \A k \in 1..Len(scan.blockStack) :
            ~Accepts(scan.blockStack[k].directive, CloserOn(scan.lines[scan.lineNum + 1])))
    => /\ scan'.blockStack = scan.blockStack
       /\ Len(scan'.diagnostics) = Len(scan.diagnostics) + 1
       /\ SubSeq(scan'.diagnostics, 1, Len(scan.diagnostics)) = scan.diagnostics
       /\ IsUnmatched(scan'.diagnostics[Len(scan'.diagnostics)])
       /\ scan'.diagnostics[Len(scan'.diagnostics)].line = scan.lineNum

\* C19: a closer no entry of the block stack accepts adds exactly one
\* unmatched-closer error, on its line, and leaves the block stack as it was.
C19_UnmatchedCloserLeavesStack == [][C19_UnmatchedStep]_vars

\* C19 witness: a .next inside a procedure was reported on its line and the
\* procedure was closed by its .pend all the same
C19_Witness ==
    /\ scan.pc = "done"
    /\ scan.lines = << "s .proc", " .next", " .pend" >>
    /\ scan.blockStack = << >>
    /\ Len(scan.diagnostics) = 1
    /\ IsUnmatched(scan.diagnostics[1])
    /\ scan.diagnostics[1].line = 1

\* the duplicate-label errors at the range of a label
DuplicateErrorsAt(label) ==
    {i \in 1..Len(scan.diagnostics) :
        /\ LitAt(scan.diagnostics[i].message, 1, "Duplicate label '")
        /\ scan.diagnostics[i].line = label.line
        /\ scan.diagnostics[i].startChar = label.startChar
        /\ scan.diagnostics[i].endChar = label.endChar}

\* C20: after the duplicate-label check a non-anonymous definition is
\* reported at its range exactly when an earlier non-anonymous definition of
\* the document has its scope path, its local scope and its name; an
\* anonymous label is never reported.
C20_DuplicateIffSameScopeAndName ==
    scan.pc \in {"blocks", "done"} =>
        LET labels == MapGet(documentIndex, scan.uri).labels
        IN  \A i \in 1..Len(labels) :
                IF labels[i].isAnonymous THEN DuplicateErrorsAt(labels[i]) = {}
                ELSE (DuplicateErrorsAt(labels[i]) # {}) <=>
                         \E j \in 1..(i - 1) :
                             /\ ~labels[j].isAnonymous
                             /\ labels[j].scopePath = labels[i].scopePath
                             /\ labels[j].localScope = labels[i].localScope
                             /\ labels[j].name = labels[i].name

(***************************************************************************)
(* The operator check of the data directives.                              *)
(***************************************************************************)
IsOperatorExpected(d) ==
    d.severity = "Error" /\ LitAt(d.message, 1, "An operator is expected before '")

\* the operator-expected errors of a line, in the order of their report
OperatorErrorsOn(lineNum) ==
    SelectSeq(scan.diagnostics, LAMBDA d : IsOperatorExpected(d) /\ d.line = lineNum)

\* a document of one data line put together from DataPrefixes, DataValues
\* and DataSeparators
DataLineText(lines) == Len(lines) = 1 /\ lines \in DataTexts

ValueAt(line, pos) == CHOOSE v \in DataValues : LitAt(line, pos, v)

SeparatorAt(line, pos) ==
    CHOOSE sep \in DataSeparators :
        LitAt(line, pos, sep) /\ \E v \in DataValues : LitAt(line, pos + Len(sep), v)

RECURSIVE ValuePlaces(_, _, _)
\* the values of a data line from position pos, each with its 0-based start
\* and with what stands before it
ValuePlaces(line, pos, before) ==
    LET v    == ValueAt(line, pos)
        next == pos + Len(v)
    IN  << [start |-> pos - 1, text |-> v, before |-> before] >> \o
        (IF next > Len(line) THEN << >>
         ELSE ValuePlaces(line, next + Len(SeparatorAt(line, next)), SeparatorAt(line, next)))

\* the values of a data line
ValuesOf(line) ==
    LET prefix == CHOOSE p \in DataPrefixes : LitAt(line, 1, p)
    IN  ValuePlaces(line, Len(prefix) + 1, "")

\* the starts of the values that follow a value with white space only
\* between the two
UnseparatedStarts(line) ==
    LET follows == SelectSeq(ValuesOf(line), LAMBDA pl : pl.before = " ")
    IN  [k \in 1..Len(follows) |-> follows[k].start]

\* C21: a data line of three values separated by white space only gets
\* exactly one operator-expected error, at the second value.
C21_OneErrorAtSecondValue ==
    (/\ scan.pc = "done"
     /\ DataLineText(scan.lines)
     /\ Len(ValuesOf(scan.lines[1])) = 3
     /\ Len(UnseparatedStarts(scan.lines[1])) = 2)
    => /\ Len(OperatorErrorsOn(0)) = 1
       /\ OperatorErrorsOn(0)[1].startChar = ValuesOf(scan.lines[1])[2].start

RenameReplied ==
    /\ "kind" \in DOMAIN reply
    /\ reply.kind = "rename"
    /\ reply.symbol # NotFound

\* the reply of a find-all-references request whose word resolved
ReferencesReplied ==
    /\ "kind" \in DOMAIN reply
    /\ reply.kind = "references"
    /\ reply.symbol # NotFound

RECURSIVE EditLocations(_, _, _)
\* the locations of the edits of a workspace edit, document by document from
\* document k: the annotated ones, or the ones without annotation
EditLocations(docs, k, annotated) ==
    IF k > Len(docs) THEN << >>
    ELSE LET chosen == SelectSeq(docs[k].edits,
                           LAMBDA e : (e.annotationId # Null) = annotated)
         IN  [i \in 1..Len(chosen) |->
                 Location(docs[k].uri, chosen[i].line, chosen[i].startChar, chosen[i].endChar)]
             \o EditLocations(docs, k + 1, annotated)

Elements(seq) == {seq[i] : i \in DOMAIN seq}

NoneTwice(seq) == \A i, j \in DOMAIN seq : seq[i] = seq[j] => i = j

\* the location of the definition of the symbol of the reply
DefinitionLocation ==
    Location(reply.symbol.uri, reply.symbol.line, reply.symbol.startChar, reply.symbol.endChar)

\* C23: the edits of a rename that carry no annotation are one edit at the
\* definition of the symbol and one edit at each location find-all-references
\* returns for the same word when the declaration is left out: no location is
\* missing, none is added and none is edited twice.
C23_RenameEditsAreReferences ==
    RenameReplied =>
        LET edits == EditLocations(reply.edit.documents, 1, FALSE)
            found == FindReferences(Store, reply.word, reply.uri, reply.line, FALSE)
        IN  /\ NoneTwice(edits)
            /\ Elements(edits) = {DefinitionLocation} \cup Elements(found)
            /\ \A i \in DOMAIN edits : edits[i].endChar - edits[i].startChar = Len(reply.symbol.name)

\* C23 witness: a macro was renamed from one of its calls, and the definition
\* and three calls in two documents are edited.
C23_Witness ==
    /\ RenameReplied
    /\ reply.word = ".mac"
    /\ Len(reply.edit.documents) = 2
    /\ Len(EditLocations(reply.edit.documents, 1, FALSE)) = 4
    /\ Len(FindReferences(Store, reply.word, reply.uri, reply.line, FALSE)) > 3

\* the line a location lies on, as the handler read it
LocationLine(location) == DocContent(Store, location.uri).lines[location.line + 1]

\* a location that lies in the comment of its line, and one that lies in its
\* code
InComment(location) == location.startChar >= Len(LineCode(LocationLine(location)))

InCode(location) == location.endChar <= Len(LineCode(LocationLine(location)))

\* C24: in the result of a rename every edit without annotation lies in the
\* code of its line, and every edit in a comment carries the annotation
\* commentRename, which the result declares as needing confirmation; a result
\* without that annotation holds no edit in a comment.
C24_CommentEditsAnnotated ==
    RenameReplied =>
        LET docs == reply.edit.documents
            annotations == reply.edit.changeAnnotations
        IN  /\ \A location \in Elements(EditLocations(docs, 1, FALSE)) : InCode(location)
            /\ \A location \in Elements(EditLocations(docs, 1, TRUE)) : InComment(location)
            /\ \A k \in DOMAIN docs : \A e \in Elements(docs[k].edits) :
                   e.annotationId # Null =>
                       /\ e.annotationId = "commentRename"
                       /\ \E a \in Elements(annotations) :
                              a.id = e.annotationId /\ a.needsConfirmation
            /\ \A location \in Elements(EditLocations(docs, 1, TRUE)) :
                   location \notin Elements(EditLocations(docs, 1, FALSE))

\* C24 witness: a rename of the macro mac with three edits in the code and
\* two annotated edits in comments.
C24_Witness ==
    /\ RenameReplied
    /\ reply.symbol.name = "mac"
    /\ reply.edit.kind = "documentChanges"
    /\ Len(EditLocations(reply.edit.documents, 1, TRUE)) >= 2
    /\ Len(EditLocations(reply.edit.documents, 1, FALSE)) >= 3
    /\ \E location \in Elements(EditLocations(reply.edit.documents, 1, TRUE)) :
           InComment(location)

\* the word pattern under the i flag
WordMatchesAnyCase(text, name) ==
    SelectSeq([p \in 1..Len(text) |-> p - 1], LAMBDA c :
        /\ LitAtCI(text, c + 1, ToLowerCase(name))
        /\ c = 0 \/ ~IsWord(Ch(text, c))
        /\ BoundaryAt(text, c + 1 + Len(name)))

\* the occurrences of the name of the symbol in the code of a line, as whole
\* words: in the spelling of the index when the mode is case-sensitive, in any
\* letter case when it is not
Occurrences(code, name) ==
    IF globalSettings.caseSensitive THEN WordMatches(code, name)
    ELSE WordMatchesAnyCase(code, name)

\* the occurrences of a line of an indexed document that the resolver, asked
\* from the line with the text of the occurrence, resolves to the definition
\* of the symbol of the reply; the definition itself is none of them
ResolvedOccurrences(uri, lineNum) ==
    LET code == LineCode(DocContent(Store, uri).lines[lineNum + 1])
        name == reply.symbol.name
        starts == Occurrences(code, name)
    IN  {Location(uri, lineNum, starts[k], starts[k] + Len(name)) : k \in
            {k \in DOMAIN starts :
                LET found == FindSymbolInfo(SubSeq(code, starts[k] + 1, starts[k] + Len(name)),
                                            uri, lineNum, documentIndex)
                IN  /\ found # NotFound
                    /\ found.uri = reply.symbol.uri
                    /\ found.line = reply.symbol.line}}
        \ {DefinitionLocation}

\* C25: the locations of find-all-references hold every occurrence in the
\* code of a line of an indexed document that the resolver resolves from that
\* line to the definition of the symbol, those in another letter case
\* included when the mode is case-insensitive.
C25_ReferencesCoverResolved ==
    ReferencesReplied =>
        \A i \in DOMAIN documentIndex :
            \A lineNum \in 0..(Len(DocContent(Store, documentIndex[i].key).lines) - 1) :
                ResolvedOccurrences(documentIndex[i].key, lineNum)
                    \subseteq Elements(reply.locations)

\* the scope path and the local scope recorded for the line of a location
LocationScope(location) ==
    ScopeAtLineGet(MapGet(documentIndex, location.uri), location.line)

\* a location in the document that defines the symbol of the reply, on a line
\* whose recorded scope path and local scope are those of the definition
InDefiningScope(location) ==
    /\ location.uri = reply.symbol.uri
    /\ LocationScope(location).scopePath = reply.symbol.scopePath
    /\ LocationScope(location).localScope = reply.symbol.localScope

\* C26: for a local symbol every location of find-all-references and every
\* edit in the code of a rename lies in the document that defines the symbol,
\* on a line whose recorded scope path and local scope equal those of the
\* definition.
C26_LocalReferencesStayInScope ==
    /\ ReferencesReplied /\ reply.symbol.isLocal =>
           \A location \in Elements(reply.locations) : InDefiningScope(location)
    /\ RenameReplied /\ reply.symbol.isLocal =>
           \A location \in Elements(EditLocations(reply.edit.documents, 1, FALSE)) :
               InDefiningScope(location)

(***************************************************************************)
(* The functions of utils.ts (SpecUtils).                                  *)
(***************************************************************************)
\* the first position from i on that holds one of the characters, 0 for none
FirstOf(line, i, chars) ==
    IF \E p \in i..Len(line) : Ch(line, p) \in chars
    THEN CHOOSE p \in i..Len(line) :
             Ch(line, p) \in chars /\ \A q \in i..(p - 1) : Ch(line, q) \notin chars
    ELSE 0

\* the end of the string that starts with the delimiter at position s: the
\* first later delimiter that ends an odd run of delimiters (an even run is
\* made of doubled delimiters only); 0 when the string is not terminated
StringClose(line, s) ==
    LET quote == Ch(line, s)
        closes(p) ==
            /\ Ch(line, p) = quote
            /\ p = Len(line) \/ Ch(line, p + 1) # quote
            /\ \E n \in 1..(p - s) :
                   /\ n % 2 = 1
                   /\ \A k \in (p - n + 1)..p : Ch(line, k) = quote
                   /\ p - n = s \/ Ch(line, p - n) # quote
    IN  IF \E p \in (s + 1)..Len(line) : closes(p)
        THEN CHOOSE p \in (s + 1)..Len(line) :
                 closes(p) /\ \A q \in (s + 1)..(p - 1) : ~closes(q)
        ELSE 0

RECURSIVE FirstCommentFrom(_, _)
\* the 0-based position of the first ";" from position i on that lies
\* outside every string, string by string; -1 for none
FirstCommentFrom(line, i) ==
    LET semi  == FirstOf(line, i, {";"})
        quote == FirstOf(line, i, {"\"", "'"})
    IN  IF semi = 0 THEN 0 - 1
        ELSE IF quote = 0 \/ semi < quote THEN semi - 1
        ELSE IF StringClose(line, quote) = 0 THEN 0 - 1
        ELSE FirstCommentFrom(line, StringClose(line, quote) + 1)

\* C27: parseLineStructure reports as commentStart the position of the first
\* ";" outside every string literal, -1 when there is none or a string is
\* left open before it, and as code the line before that position, or the
\* whole line.
C27_CommentStartsOutsideStrings ==
    reply.kind = "parseLineStructure" =>
        LET start == FirstCommentFrom(reply.input, 1)
        IN  /\ reply.structure.commentStart = start
            /\ reply.structure.code =
                   IF start < 0 THEN reply.input ELSE SubSeq(reply.input, 1, start)

\* C27 witness: a line whose first ";" lies in a string that holds a doubled
\* delimiter, and whose comment starts after the string.
C27_Witness ==
    /\ reply.kind = "parseLineStructure"
    /\ reply.input = "''';';"
    /\ reply.structure = [code |-> "''';'", commentStart |-> 5]

\* the digit values of the digits of a text from position i on
DigitValuesFrom(text, i) == [k \in 1..(Len(text) - i + 1) |-> DigitValue(Ch(text, i + k - 1))]

\* the integer a text denotes, as its sign and the decimal digit values of
\* its magnitude: an optional "-", then decimal digits, "$" or "0x" and
\* hexadecimal digits, or "%" or "0b" and binary digits
Denoted(text) ==
    LET negative == StartsWith(text, "-")
        body     == IF negative THEN SubSeq(text, 2, Len(text)) ELSE text
        decimal(from, base) == Convert(StripZeros(DigitValuesFrom(body, from)), base, 10)
        digits   == IF StartsWith(body, "$") THEN decimal(2, 16)
                    ELSE IF StartsWith(body, "%") THEN decimal(2, 2)
                    ELSE IF LitAtCI(body, 1, "0x") THEN decimal(3, 16)
                    ELSE IF LitAtCI(body, 1, "0b") THEN decimal(3, 2)
                    ELSE decimal(1, 10)
    IN  [negative |-> negative /\ Len(digits) > 0, digits |-> digits]

\* the parts of a string between its separators ", "
Components(formatted) ==
    LET commas == SelectSeq([p \in 1..Len(formatted) |-> p], LAMBDA p : LitAt(formatted, p, ", "))
    IN  [k \in 1..(Len(commas) + 1) |->
            SubSeq(formatted, IF k = 1 THEN 1 ELSE commas[k - 1] + 2,
                   IF k > Len(commas) THEN Len(formatted) ELSE commas[k] - 1)]

\* the literal without the negative sign a component may carry
Unsigned(text) == IF StartsWith(text, "-") THEN SubSeq(text, 2, Len(text)) ELSE text

\* C28: for a literal parseNumericValue accepts, formatNumericValue of its
\* value is three components, a binary one with "%", a decimal one and a
\* hexadecimal one with "$", and each denotes the integer the literal denotes.
C28_FormatDenotesLiteral ==
    reply.kind = "formatNumericValue" =>
        LET parts == Components(reply.formatted)
        IN  /\ Len(parts) = 3
            /\ StartsWith(Unsigned(parts[1]), "%")
            /\ AllOf(Unsigned(parts[2]), 1, Digits)
            /\ StartsWith(Unsigned(parts[3]), "$")
            /\ \A k \in 1..3 : Denoted(parts[k]) = Denoted(Trim(reply.input))

(***************************************************************************)
(* The indexer, line by line: the entry of an opener or closer line and    *)
(* the definitions of a line (SpecScan).                                   *)
(***************************************************************************)
\* the step of the line loop of parseDocument for a line that opens or
\* closes a named scope: the entry of the line holds the scope path in force
\* before the line
C29_Step ==
    (/\ scan.pc = "parse"
     /\ scan'.pc = "parse"
     /\ scan'.lineNum = scan.lineNum + 1
     /\ GetCurrentScopePath(scan'.P.scopeStack) # GetCurrentScopePath(scan.P.scopeStack))
    => scan'.P.scopeAtLine[scan'.lineNum].scopePath = GetCurrentScopePath(scan.P.scopeStack)

\* C29: the scopeAtLine entry of a line that opens or closes a scope records
\* the scope in force before the directive takes effect: an opener line the
\* enclosing scope, a closer line the scope that is being closed.
C29_EntryRecordsScopeBefore == [][C29_Step]_vars

\* the definitions the step of the line loop adds
NewLabels == SubSeq(scan'.P.labels, Len(scan.P.labels) + 1, Len(scan'.P.labels))

\* the step of the line loop of parseDocument: a line adds at most one
\* definition that is not anonymous, and a line that pushes a named frame
\* adds exactly one definition, the name of the frame at the scope path in
\* force before the line
C30_Step ==
    (/\ scan.pc = "parse"
     /\ scan'.pc = "parse"
     /\ scan'.lineNum = scan.lineNum + 1)
    => /\ Len(SelectSeq(NewLabels, LAMBDA label : ~label.isAnonymous)) <= 1
       /\ (/\ Len(scan'.P.scopeStack) = Len(scan.P.scopeStack) + 1
           /\ scan'.P.scopeStack[Len(scan'.P.scopeStack)].name # Null)
          => /\ Len(NewLabels) = 1
             /\ NewLabels[1].name = scan'.P.scopeStack[Len(scan'.P.scopeStack)].name
             /\ NewLabels[1].scopePath = GetCurrentScopePath(scan.P.scopeStack)
             /\ NewLabels[1].line = scan.lineNum

\* C30: every line contributes definitions from at most one detection rule;
\* a "name .directive" line that opens a scope yields exactly one definition,
\* the label of the scope at the enclosing scope, in any letter case of the
\* directive and in either mode.
C30_OneRulePerLine == [][C30_Step]_vars

(***************************************************************************)
(* The indexer: local scopes, constant assignments, anonymous labels and   *)
(* directives in comments (SpecScan).                                      *)
(***************************************************************************)
\* a line whose code holds a scope-opening or a scope-closing directive
BoundaryLine(line) ==
    LET code == LineCode(line) 
    IN  \E i \in 1..Len(SCOPE_OPENERS) :
            \/ ClosePatternTest(ToLowerCase(code), SCOPE_OPENERS[i].close)
            \/ OpenPatternMatch(code, SCOPE_OPENERS[i].open) # Null
            \/ AnonPatternTest(ToLowerCase(code), SCOPE_OPENERS[i].open)

\* a line that is a plain code label, alone or before an opcode
CodeLabelOf(line) ==
    IF CodeLabelMatch(line) # Null THEN CodeLabelMatch(line) ELSE CodeLabelOpcodeMatch(line)

\* C31: a "_name" symbol recorded under a local scope lies after the code
\* label of that local scope with no scope-opening and no scope-closing
\* directive between the code label and the symbol.
C31_BoundaryEndsLocalScope ==
    scan.pc = "parse" =>
        \A n \in 1..Len(scan.P.labels) :
            LET label == scan.P.labels[n]
            IN  (label.isLocal /\ ~label.isAnonymous /\ label.localScope # Null) =>
                    \E c \in 0..(label.line - 1) :
                        /\ CodeLabelOf(scan.lines[c + 1]) # Null
                        /\ NormalizeName(CodeLabelOf(scan.lines[c + 1]), scan.caseSensitive)
                               = label.localScope
                        /\ \A j \in (c + 1)..(label.line - 1) : ~BoundaryLine(scan.lines[j + 1])

\* the definitions recorded for line number lineNum of the scanned document
LabelsOfLine(lineNum) ==
    {n \in 1..Len(scan.P.labels) : scan.P.labels[n].line = lineNum}

\* C32: a definition made from a line "name = value" or "name := value"
\* carries the trimmed value text, and is flagged local when the name
\* begins with an underscore.
C32_AssignmentCarriesValue ==
    scan.pc = "parse" =>
        \A n \in 1..Len(scan.P.labels) :
            LET label == scan.P.labels[n]
                m     == ConstMatch(scan.lines[label.line + 1])
            IN  (m.name # Null /\ label.originalName = m.name /\ Trim(m.value) # "") =>
                    /\ label.value = Trim(m.value)
                    /\ (Ch(m.name, 1) = "_" => label.isLocal)

\* the run of "+" and "-" characters that follows the leading white space
SignRun(line) ==
    SubSeq(line, SpaceEnd(line, 1), SignEnd(line, SpaceEnd(line, 1)) - 1)

\* the run stands alone: a colon may follow it, then white space, a comment
\* or the end of the line
RunStandsAlone(line) ==
    LET r  == SignEnd(line, SpaceEnd(line, 1))
        r2 == IF r <= Len(line) /\ Ch(line, r) = ":" THEN r + 1 ELSE r
    IN  r2 > Len(line) \/ IsSpace(Ch(line, r2)) \/ Ch(line, r2) = ";"

\* C33: a line that begins with a run of n identical "+" or "-" characters
\* adds exactly n anonymous definitions, numbered 1..n in order, all at the
\* scope path and under the local scope in force on the line; a run that
\* mixes "+" and "-" adds no anonymous definition.
C33_Step ==
    (scan.pc = "parse" /\ scan'.pc = "parse" /\ scan'.lineNum = scan.lineNum + 1) =>
        LET line == scan.lines[scan.lineNum + 1]
            run  == SignRun(line)
        IN  IF run # "" /\ RunStandsAlone(line)
                /\ \A i \in 1..Len(run) : Ch(run, i) = Ch(run, 1)
            THEN /\ Len(NewLabels) = Len(run)
                 /\ \A i \in 1..Len(run) :
                        /\ NewLabels[i].isAnonymous
                        /\ NewLabels[i].name = Ch(run, 1)
                        /\ NewLabels[i].anonymousCount = i
                        /\ NewLabels[i].line = scan.lineNum
                        /\ NewLabels[i].scopePath = GetCurrentScopePath(scan.P.scopeStack)
                        /\ NewLabels[i].localScope = scan.P.currentLocalScope
            ELSE \A i \in 1..Len(NewLabels) : ~NewLabels[i].isAnonymous

IsNoAnonymousLabel(d) ==
    /\ d.severity = "Warning"
    /\ d.message \in {"No forward anonymous label found", "No backward anonymous label found"}

\* the line has a recognized opcode before its operand
HasRecognizedOpcode(line) ==
    /\ OpcodeMatch(LineCode(line)).op # Null
    /\ ToLowerCase(OpcodeMatch(LineCode(line)).op) \in OPCODES

\* C34: every warning of an anonymous label that was not found stands on a
\* line whose operand follows a recognized opcode.
C34_AnonymousWarningOnlyForOpcodes ==
    \A i \in 1..Len(scan.diagnostics) :
        IsNoAnonymousLabel(scan.diagnostics[i]) =>
            HasRecognizedOpcode(scan.lines[scan.diagnostics[i].line + 1])

(***************************************************************************)
(* The comment of a line (SpecUtils).                                      *)
(***************************************************************************)
\* the documentation text of the comment parseLineStructure finds: the text
\* after its ";", without the white space at its end and one leading space
CommentText(line) ==
    LET start == ParseLineStructure(line).commentStart
        rest  == TrimEnd(SubSeq(line, start + 2, Len(line)))
        text  == IF Len(rest) >= 1 /\ Ch(rest, 1) = " " THEN SubSeq(rest, 2, Len(rest)) ELSE rest
    IN  IF start < 0 \/ text = "" THEN Null ELSE text

\* C35: the comment extractComment returns for a line, and the comment
\* getBlockComment returns for a line that stands alone or has a comment of
\* its own, is the text after the first ";" outside the string literals.
C35_CommentAgreesWithLineStructure ==
    /\ reply.kind = "extractComment" => reply.comment = CommentText(reply.input)
    /\ (reply.kind = "getBlockComment"
            /\ (Len(reply.lines) = 1 \/ CommentText(reply.input) # Null))
         => reply.comment = CommentText(reply.input)

(***************************************************************************)
(* Folding ranges and the block stack of the diagnostics (SpecScan).       *)
(***************************************************************************)
RECURSIVE PoppedBlocks(_, _, _)
\* the entries the block stack of validateDocument pops from line number
\* lineNum on, each with the line of the closer that popped it
PoppedBlocks(lines, lineNum, blockStack) ==
    IF lineNum >= Len(lines) THEN {}
    ELSE LET opened == OpenBlocks(blockStack, ToLowerCase(LineCode(lines[lineNum + 1])), lineNum)
             after  == ValidateBlocks([blockStack |-> blockStack, diagnostics |-> << >>],
                                      lines[lineNum + 1], lineNum).blockStack
         IN  {[opener |-> opened[k], closedAt |-> lineNum] :
                 k \in {k \in 1..Len(opened) : ~SeqIncludes(after, opened[k])}}
             \cup PoppedBlocks(lines, lineNum + 1, after)

\* C36: the folding ranges are, one for one, the entries the block stack of
\* the diagnostics pops, each from the line of its opener to the line of the
\* closer that popped it; the entries left on the block stack have no range.
C36_FoldingMatchesBlockStack ==
    scan.pc = "folded" =>
        LET popped == PoppedBlocks(scan.lines, 0, << >>)
        IN  /\ Len(scan.ranges) = Cardinality(popped)
            /\ \A s, e \in 0..(Len(scan.lines) - 1) :
                   Cardinality({k \in 1..Len(scan.ranges) :
                       scan.ranges[k].startLine = s /\ scan.ranges[k].endLine = e})
                   = Cardinality({b \in popped : b.opener.line = s /\ b.closedAt = e})
            /\ \A k \in 1..Len(scan.ranges) : \A i \in 1..Len(scan.blockStack) :
                   scan.ranges[k].startLine = scan.blockStack[i].line =>
                       \E b \in popped : /\ b.opener.line = scan.blockStack[i].line
                                         /\ b.opener.directive # scan.blockStack[i].directive

\* ".pend" has closed the ".proc" of line 0 from under the ".for" of line 1:
\* one range for lines 0 to 2, and the ".for" is reported as unclosed
C36_Witness ==
    /\ scan.pc = "folded"
    /\ scan.lines = << "s .proc", " .for", " .pend" >>
    /\ scan.ranges = << FoldingRange(0, 2) >>
    /\ scan.blockStack = << [directive |-> ".for", line |-> 1] >>
    /\ \E i \in 1..Len(scan.diagnostics) :
           IsUnclosed(scan.diagnostics[i]) /\ scan.diagnostics[i].line = 1

\* C37: a line whose code portion holds no scope-opening and no
\* scope-closing directive leaves the scope stack of the indexer as it was.
C37_Step ==
    (scan.pc = "parse" /\ scan'.pc = "parse" /\ scan'.lineNum = scan.lineNum + 1
        /\ ~BoundaryLine(scan.lines[scan.lineNum + 1]))
    => scan'.P.scopeStack = scan.P.scopeStack

C37_CommentDirectivesIgnored == [][C37_Step]_vars

(***************************************************************************)
(* The resolver and the local definitions (SpecResolve).                   *)
(***************************************************************************)
\* C38: a definition flagged local that a request is answered with lies in
\* the document of the request, at the scope path and under the local scope
\* of the line of the request.
C38_LocalStaysPrivate ==
    (reply.word # Null /\ reply.symbol # NotFound /\ reply.symbol.isLocal) =>
        /\ reply.symbol.uri = reply.uri
        /\ reply.symbol.scopePath = ReplyScope.scopePath
        /\ reply.symbol.localScope = ReplyScope.localScope

\* the index with its documents in another order
Reordered(index, perm) == [i \in 1..Len(index) |-> index[perm[i]]]

\* C39: the definition a plain name resolves to is the one it resolves to
\* under every other order of the same indexed documents.
C39_ResolutionIgnoresOrder ==
    PlainWord(reply.word) =>
        \A perm \in Permutations(1..Len(documentIndex)) :
            FindSymbolInfo(reply.word, reply.uri, reply.line, Reordered(documentIndex, perm))
                = reply.symbol

====
